---- MODULE Spec2Model ----
(***************************************************************************)
(* BufferingAudioSource (juce_audio_basics/sources): the streaming         *)
(* look-ahead audio cache.  Three execution contexts are modelled: the     *)
(* real-time thread calling getNextAudioBlock, the TimeSliceThread calling *)
(* useTimeSlice/readNextBufferChunk, and the owner thread calling          *)
(* prepareToPlay, releaseResources, setNextReadPosition and toggling the   *)
(* looping flag of the wrapped source.  One channel is modelled: every     *)
(* channel is addressed with the same indices.                             *)
(***************************************************************************)
EXTENDS Integers, Sequences, FiniteSets, TLC

(* ------------------------------ bounds --------------------------------- *)
\* bufferSizeSamples passed to the constructor
BufferSizeSamples == 1024
\* total length reported by the wrapped source
TotalLength == 1500
\* the real-time thread issues no call that would start beyond this cursor
MaxPlayPos == 1200
\* the owner thread performs at most this many operations
MaxOwnerOps == 2
\* and at most this many when only the lifecycle and the refill are examined
MaxConfigureOps == 3
\* and at most this many while a caller waits for the next block
MaxWaitOps == 2
\* the millisecond counter is followed up to this value after the call started
MaxClock == 3
\* uint32 and int are modelled with this many bits instead of 32
CounterBits == 4

\* the wraparound split is examined for every capacity up to this one
MaxSplitCapacity == 5
\* and for every absolute range starting at a position up to this one
MaxSplitStart == 11

\* the scenarios: capacity, total length of the source, block size, seek target
ScenarioCapacity == 4096
ScenarioLength == 10000
ScenarioBlock == 512
ScenarioSeek == 9800
\* and the number of operations the owner thread performs in them
ScenarioOwnerOps == 1

\* the owner thread performs at most this many operations during playback
MaxPlayingOps == 1

\* samplesPerBlockExpected of a prepareToPlay call made during playback
ReconfigureBlockSizeSet == {512, 600}

\* the owner thread performs at most this many operations when it asks for the
\* position
MaxPositionOps == 2
\* the real-time thread calls at cursors up to this one where only the start
\* of the playback is examined
MaxPositionPlayPos == 300
\* arguments of setNextReadPosition before getNextReadPosition
PositionSeekSet == {0 - 200, 1600, 3000}

\* arguments of setNextReadPosition when the stream has to catch up
CatchUpSeekSet == {0 - 400, 0 - 200, 1200}

\* the owner thread makes at most this many prepareToPlay calls that wait for
\* the cache to fill
MaxPrefillOps == 1
\* samplesPerBlockExpected of these calls: one chunk fills the target, or not
PrefillBlockSizeSet == {512, 2500}

\* info.numSamples of the real-time calls
NumSamplesSet == {300}
\* arguments of setNextReadPosition
SeekSet == {0 - 200, 1200}
\* samplesPerBlockExpected / newSampleRate of prepareToPlay
BlockSizeSet == {512}
SampleRateSet == {44100, 48000}
\* info.numSamples and timeout of waitForNextAudioBlockReady
WaitSizeSet == {300}
WaitTimeoutSet == {0, 2, 2 ^ (CounterBits - 1)}
\* arguments of setNextReadPosition while a caller waits for the next block
WaitSeekSet == {0 - 400, 900, 1600}
\* samplesPerBlockExpected when only the lifecycle and the refill are examined
ConfigureBlockSizeSet == {256, 512, 600}

(* ------------------------- program constants --------------------------- *)
MinSamplesToBuffer == 1024
GuardSamples == 4
maxChunkSize == 2048
DriftThreshold == 512
HintBusy == 1
HintIdle == 100

\* contents of a destination sample the call has not written
Untouched == 0 - 1
\* a sample produced by undefined behaviour
Garbage == 0 - 2

(* ------------------------------ helpers -------------------------------- *)
jmax(a, b) == IF a < b THEN b ELSE a
jmin(a, b) == IF b < a THEN b ELSE a
jlimit(lo, hi, v) == IF v < lo THEN lo ELSE IF hi < v THEN hi ELSE v
abs(a) == IF a < 0 THEN 0 - a ELSE a

\* the wrapped source: sample stored at index i of its material
SourceData(i) == i + 1
\* what the wrapped source delivers for absolute position x
SourceSample(x, looping, length) ==
    IF x < 0 \/ length <= 0 THEN 0
    ELSE IF looping THEN SourceData(x % length)
    ELSE IF x < length THEN SourceData(x)
    ELSE 0

numberOfSamplesToBuffer == jmax(MinSamplesToBuffer, BufferSizeSamples)

VARIABLES
    isPrepared, sampleRate, prefillBuffer,
    capacity, buffer,
    bufferValidStart, bufferValidEnd, nextPlayPos, wasSourceLooping,
    bufferRangeLock, callbackLock, bufferReadyEvent, registered,
    srcPos, srcLooping,
    rtpc, rtN, rtPos, rtRange, out, rtSeeked, rtLifecycle, rtRet,
    bgpc, newBVS, newBVE, sections, timeSliceHint,
    ownpc, ownArgs, ownerOps, seekPending, seekArg, posRet,
    srcTotalLength, srcFailed,
    wtpc, wtN, wtTimeout, wtNow, wtElapsed, wtArg, wtWaitStart, wtRet, wtHist,
    wtCover, wtStartTime

compVars == <<isPrepared, sampleRate, prefillBuffer, capacity, buffer,
              bufferValidStart, bufferValidEnd, nextPlayPos, wasSourceLooping,
              bufferRangeLock, callbackLock, bufferReadyEvent, registered>>
\* srcFailed: the section a source read of the running time slice left unread
srcVars == <<srcPos, srcLooping, srcTotalLength, srcFailed>>
rtVars == <<rtpc, rtN, rtPos, rtRange, out, rtSeeked, rtLifecycle, rtRet>>
bgVars == <<bgpc, newBVS, newBVE, sections, timeSliceHint>>
\* seekArg: the argument of the last setNextReadPosition call, until a
\* getNextAudioBlock call runs; posRet: what getNextReadPosition returned last
\* since that call
ownVars == <<ownpc, ownArgs, ownerOps, seekPending, seekArg, posRet>>
\* the waitForNextAudioBlockReady call
wtCallVars == <<wtpc, wtN, wtTimeout, wtNow, wtElapsed, wtArg, wtWaitStart, wtRet, wtHist,
                 wtStartTime>>
wtVars == <<wtCallVars, wtCover>>
vars == <<compVars, srcVars, rtVars, bgVars, ownVars, wtVars>>

NoRet == [valid |-> FALSE, n |-> 0, pos |-> 0, posAfter |-> 0, vs |-> 0, ve |-> 0,
          a |-> 0, b |-> 0, seeked |-> FALSE, lifecycle |-> FALSE, ub |-> FALSE]

\* what a waitForNextAudioBlockReady call has done so far
NoHist == [nothingToWaitFor |-> FALSE, checks |-> 0, waits |-> 0]

\* the component after construction; the owner thread may start ops operations
InitWith(ops, length) ==
    /\ isPrepared = FALSE
    /\ sampleRate = 0
    /\ prefillBuffer = FALSE
    /\ capacity = 0
    /\ buffer = <<>>
    /\ bufferValidStart = 0
    /\ bufferValidEnd = 0
    /\ nextPlayPos = 0
    /\ wasSourceLooping = FALSE
    /\ bufferRangeLock = "free"
    /\ callbackLock = "free"
    /\ bufferReadyEvent = FALSE
    /\ registered = FALSE
    /\ srcPos = 0
    /\ srcLooping = FALSE
    /\ rtpc = "idle"
    /\ rtN = 0
    /\ rtPos = 0
    /\ rtRange = <<(<<0, 0>>), 0, 0>>
    /\ out = <<>>
    /\ rtSeeked = FALSE
    /\ rtLifecycle = FALSE
    /\ rtRet = NoRet
    /\ bgpc = "idle"
    /\ newBVS = 0
    /\ newBVE = 0
    /\ sections = <<>>
    /\ timeSliceHint = HintIdle
    /\ ownpc = "idle"
    /\ ownArgs = <<0, 0, FALSE>>
    /\ ownerOps = ops
    /\ seekPending = <<>>
    /\ seekArg = <<>>
    /\ posRet = <<>>
    /\ srcTotalLength = length
    /\ srcFailed = <<>>
    /\ wtpc = "idle"
    /\ wtN = 0
    /\ wtTimeout = 0
    /\ wtNow = 0
    /\ wtElapsed = 0
    /\ wtArg = 0
    /\ wtWaitStart = 0
    /\ wtRet = "none"
    /\ wtHist = NoHist
    /\ wtCover = "no"
    /\ wtStartTime = 0

Init == InitWith(MaxOwnerOps, TotalLength)

\* the process runs until undefined behaviour on the real-time thread ends it
Alive == rtpc # "crashed"

\* an operation of the owner thread starts (ownerOps: how many it may still start)
OwnerStarts ==
    /\ ownpc = "idle"
    /\ ownerOps > 0
    /\ ownerOps' = ownerOps - 1

\* the range [vs, ve) contains the whole block [pos, pos + n)
Covered(pos, n, vs, ve) == vs <= pos /\ pos + n <= ve

\* a waitForNextAudioBlockReady call is between its entry tests and its return
WaitInProgress == wtpc \in {"check", "wait", "clock"}

(* ----------------- real-time thread: getNextAudioBlock ----------------- *)
\* the C++ remainder (truncating towards zero)
CRem(x, m) == IF x >= 0 THEN x % m ELSE 0 - ((0 - x) % m)

\* Range<int> (start, end): the end is never below the start
MakeRange(s, e) == <<s, jmax(s, e)>>

\* a range whose end is not limited to the valid range
GetValidBufferRange_EndNotLimited(vs, ve, pos, numSamples) ==
    MakeRange(jlimit(vs, ve, pos) - pos, numSamples)

\* lines 221-229
GetValidBufferRange(vs, ve, pos, numSamples) ==
    MakeRange(jlimit(vs, ve, pos) - pos, jlimit(vs, ve, pos + numSamples) - pos)

startBufferIndex(a, pos, cap) == CRem(a + pos, cap)
endBufferIndex(b, pos, cap) == CRem(b + pos, cap)

\* physical index the copy takes output sample a + k from
CopyIndex(a, b, pos, cap, k) ==
    LET s == startBufferIndex(a, pos, cap)
        e == endBufferIndex(b, pos, cap)
        initialSize == cap - s
    IN  IF s < e THEN s + k
        ELSE IF k < initialSize THEN s + k ELSE k - initialSize

\* the copies stay inside the cache storage and have no negative length
CopyDefined(a, b, pos, cap) ==
    /\ cap > 0
    /\ LET s == startBufferIndex(a, pos, cap)
           e == endBufferIndex(b, pos, cap)
       IN  /\ s >= 0
           /\ IF s < e THEN s + (b - a) <= cap ELSE cap - s <= b - a
    /\ \A k \in 0..(b - a - 1) :
          CopyIndex(a, b, pos, cap, k) \in 0..(cap - 1)

\* destination after lines 117-155
CopiedBlock(a, b, pos, cap, n, buf) ==
    [i \in 0..(n - 1) |->
        IF i < a \/ i >= b THEN 0
        ELSE buf[CopyIndex(a, b, pos, cap, i - a)]]

ReturnRecord(n, pos, posAfter, vs, ve, range, ub) ==
    [valid |-> TRUE, n |-> n, pos |-> pos, posAfter |-> posAfter,
     vs |-> vs, ve |-> ve, a |-> range[1], b |-> range[2],
     seeked |-> rtSeeked, lifecycle |-> rtLifecycle, ub |-> ub]

\* lines 103-110: the range is read under bufferRangeLock; a total miss returns
RtReadRange(n) ==
    /\ rtpc = "idle"
    /\ bufferRangeLock = "free"
    /\ LET range == GetValidBufferRange(bufferValidStart, bufferValidEnd, nextPlayPos, n)
       IN  /\ rtN' = n
           /\ rtPos' = nextPlayPos
           /\ rtRange' = <<range, bufferValidStart, bufferValidEnd>>
           /\ IF range[1] = range[2]
              THEN /\ out' = [i \in 0..(n - 1) |-> 0]
                   /\ rtpc' = "done"
                   /\ rtRet' = [ReturnRecord(n, nextPlayPos, nextPlayPos, bufferValidStart,
                                             bufferValidEnd, range, FALSE)
                                   EXCEPT !.seeked = FALSE, !.lifecycle = (ownpc # "idle")]
              ELSE /\ out' = [i \in 0..(n - 1) |-> Untouched]
                   /\ rtpc' = "wantCallbackLock"
                   /\ rtRet' = rtRet
    /\ rtSeeked' = FALSE
    /\ rtLifecycle' = (ownpc # "idle")
    /\ seekArg' = <<>>
    /\ UNCHANGED <<compVars, srcVars, bgVars, ownpc, ownArgs, ownerOps, seekPending,
                   posRet>>
    /\ UNCHANGED wtVars

\* a getNextAudioBlock call starts, at a cursor up to MaxPlayPos
RtGetValidBufferRange(n) ==
    /\ nextPlayPos <= MaxPlayPos
    /\ RtReadRange(n)

\* lines 115-157: under callbackLock, clear the misses, copy the hit, advance
\* the cursor
RtCopy ==
    /\ rtpc = "wantCallbackLock"
    /\ callbackLock = "free"
    /\ LET a == rtRange[1][1]
           b == rtRange[1][2]
       IN  IF CopyDefined(a, b, nextPlayPos, capacity)
           THEN /\ out' = CopiedBlock(a, b, nextPlayPos, capacity, rtN, buffer)
                /\ rtpc' = "done"
                /\ rtRet' = ReturnRecord(rtN, rtPos, nextPlayPos + rtN, rtRange[2],
                                         rtRange[3], rtRange[1], FALSE)
           ELSE \* division by zero or a copy outside the storage
                /\ out' = [i \in 0..(rtN - 1) |-> Garbage]
                /\ rtpc' \in {"done", "crashed"}
                /\ rtRet' = ReturnRecord(rtN, rtPos, nextPlayPos + rtN, rtRange[2],
                                         rtRange[3], rtRange[1], TRUE)
    /\ nextPlayPos' = nextPlayPos + rtN
    /\ UNCHANGED <<isPrepared, sampleRate, prefillBuffer, capacity, buffer,
                   bufferValidStart, bufferValidEnd, wasSourceLooping,
                   bufferRangeLock, callbackLock, bufferReadyEvent, registered>>
    /\ UNCHANGED <<rtN, rtPos, rtRange, rtSeeked, rtLifecycle>>
    /\ seekArg' = <<>>
    /\ UNCHANGED <<srcVars, bgVars, ownpc, ownArgs, ownerOps, seekPending, posRet>>
    /\ UNCHANGED wtVars

\* line 158: the call is over; its block and its locals are dropped
RtReturn ==
    /\ rtpc = "done"
    /\ rtpc' = "idle"
    /\ rtN' = 0
    /\ rtPos' = 0
    /\ rtRange' = <<(<<0, 0>>), 0, 0>>
    /\ out' = <<>>
    /\ rtSeeked' = FALSE
    /\ rtLifecycle' = FALSE
    /\ rtRet' = NoRet
    /\ UNCHANGED <<compVars, srcVars, bgVars, ownVars>>
    /\ UNCHANGED wtVars

(* ---------------- owner thread: getNextReadPosition -------------------- *)
\* a position that is wrapped whatever the looping mode and the sign
getNextReadPosition_AlwaysWrapped(pos, looping, totalLength) == pos % totalLength

\* lines 206-210: the cursor, wrapped into the source when the source loops
\* and the cursor is positive
getNextReadPosition(pos, looping, totalLength) ==
    IF looping /\ pos > 0 THEN pos % totalLength ELSE pos

\* lines 203-211, for a source with a positive length (the jassert of line 205)
GetNextReadPosition ==
    /\ Alive
    /\ OwnerStarts
    /\ srcTotalLength > 0
    /\ posRet' = <<getNextReadPosition(nextPlayPos, srcLooping, srcTotalLength)>>
    /\ UNCHANGED <<compVars, srcVars, rtVars, bgVars, ownpc, ownArgs, seekPending, seekArg>>
    /\ UNCHANGED wtVars

(* ---------------- owner thread: setNextReadPosition -------------------- *)
\* the position a seek to p makes the refill start from lies outside [vs, ve)
SeekOutsideRange(p, vs, ve) == jmax(0, p) < vs \/ jmax(0, p) >= ve

\* lines 213-219
setNextReadPosition(newPosition) ==
    /\ Alive
    /\ OwnerStarts
    /\ bufferRangeLock = "free"
    /\ nextPlayPos' = newPosition
    /\ seekPending' = IF SeekOutsideRange(newPosition, bufferValidStart, bufferValidEnd)
                      THEN <<newPosition>> ELSE <<>>
    /\ seekArg' = <<newPosition>>
    /\ posRet' = <<>>
    /\ rtSeeked' = (rtSeeked \/ rtpc = "wantCallbackLock")
    /\ UNCHANGED <<isPrepared, sampleRate, prefillBuffer, capacity, buffer,
                   bufferValidStart, bufferValidEnd, wasSourceLooping,
                   bufferRangeLock, callbackLock, bufferReadyEvent, registered>>
    /\ UNCHANGED <<rtpc, rtN, rtPos, rtRange, out, rtLifecycle, rtRet>>
    /\ UNCHANGED <<srcVars, bgVars, ownpc, ownArgs>>
    /\ wtCover' = "no"
    /\ UNCHANGED wtCallVars

\* the owner switches the looping mode of the wrapped source
SourceSetLooping ==
    /\ Alive
    /\ OwnerStarts
    /\ srcLooping' = ~srcLooping
    /\ UNCHANGED <<compVars, srcPos, srcTotalLength, srcFailed, rtVars, bgVars, ownpc, ownArgs,
                   seekPending, seekArg, posRet>>
    /\ UNCHANGED wtVars

(* ------------- background thread: readNextBufferChunk ------------------ *)
\* the wrapped source: currentPosition()
SourcePosition == srcPos

\* a refill that never splits the section
SplitSections_NoSplit(sectionToReadStart, sectionToReadEnd, cap) ==
    << <<sectionToReadStart, sectionToReadEnd - sectionToReadStart,
         CRem(sectionToReadStart, cap)>> >>

\* lines 280-300: the one or two readBufferSection calls <<start, length, bufferOffset>>
SplitSections(sectionToReadStart, sectionToReadEnd, cap) ==
    LET bufferIndexStart == CRem(sectionToReadStart, cap)
        bufferIndexEnd == CRem(sectionToReadEnd, cap)
        initialSize == cap - bufferIndexStart
    IN  IF bufferIndexStart < bufferIndexEnd
        THEN << <<sectionToReadStart, sectionToReadEnd - sectionToReadStart, bufferIndexStart>> >>
        ELSE << <<sectionToReadStart, initialSize, bufferIndexStart>>,
                <<sectionToReadStart + initialSize,
                  (sectionToReadEnd - sectionToReadStart) - initialSize, 0>> >>

\* a selection whose drift case does not move the published start
SelectSection_DriftKeepsStart(vs, ve, pos, cap) ==
    LET nBVS == jmax(0, pos)
        nBVE == nBVS + cap - GuardSamples
    IN  IF nBVS < vs \/ nBVS >= ve
        THEN [newBVS |-> nBVS, newBVE |-> jmin(nBVE, nBVS + maxChunkSize),
              sectionToReadStart |-> nBVS,
              sectionToReadEnd |-> jmin(nBVE, nBVS + maxChunkSize),
              bufferValidStart |-> 0, bufferValidEnd |-> 0]
        ELSE IF abs(nBVS - vs) > DriftThreshold \/ abs(nBVE - ve) > DriftThreshold
        THEN [newBVS |-> nBVS, newBVE |-> jmin(nBVE, ve + maxChunkSize),
              sectionToReadStart |-> ve,
              sectionToReadEnd |-> jmin(nBVE, ve + maxChunkSize),
              bufferValidStart |-> vs,
              bufferValidEnd |-> jmin(ve, jmin(nBVE, ve + maxChunkSize))]
        ELSE [newBVS |-> nBVS, newBVE |-> nBVE,
              sectionToReadStart |-> 0, sectionToReadEnd |-> 0,
              bufferValidStart |-> vs, bufferValidEnd |-> ve]

\* a selection that extends the tail as soon as a boundary has moved at all
SelectSection_NoThreshold(vs, ve, pos, cap) ==
    LET nBVS == jmax(0, pos)
        nBVE == nBVS + cap - GuardSamples
    IN  IF nBVS < vs \/ nBVS >= ve
        THEN [newBVS |-> nBVS, newBVE |-> jmin(nBVE, nBVS + maxChunkSize),
              sectionToReadStart |-> nBVS,
              sectionToReadEnd |-> jmin(nBVE, nBVS + maxChunkSize),
              bufferValidStart |-> 0, bufferValidEnd |-> 0]
        ELSE IF abs(nBVS - vs) > 0 \/ abs(nBVE - ve) > 0
        THEN [newBVS |-> nBVS, newBVE |-> jmin(nBVE, ve + maxChunkSize),
              sectionToReadStart |-> ve,
              sectionToReadEnd |-> jmin(nBVE, ve + maxChunkSize),
              bufferValidStart |-> nBVS,
              bufferValidEnd |-> jmin(ve, jmin(nBVE, ve + maxChunkSize))]
        ELSE [newBVS |-> nBVS, newBVE |-> nBVE,
              sectionToReadStart |-> 0, sectionToReadEnd |-> 0,
              bufferValidStart |-> vs, bufferValidEnd |-> ve]

\* a selection that reads the whole window at once
SelectSection_WholeWindow(vs, ve, pos, cap) ==
    LET nBVS == jmax(0, pos)
        nBVE == nBVS + cap - GuardSamples
    IN  IF nBVS < vs \/ nBVS >= ve
        THEN [newBVS |-> nBVS, newBVE |-> nBVE,
              sectionToReadStart |-> nBVS,
              sectionToReadEnd |-> nBVE,
              bufferValidStart |-> 0, bufferValidEnd |-> 0]
        ELSE IF abs(nBVS - vs) > DriftThreshold \/ abs(nBVE - ve) > DriftThreshold
        THEN [newBVS |-> nBVS, newBVE |-> nBVE,
              sectionToReadStart |-> ve,
              sectionToReadEnd |-> nBVE,
              bufferValidStart |-> nBVS,
              bufferValidEnd |-> jmin(ve, nBVE)]
        ELSE [newBVS |-> nBVS, newBVE |-> nBVE,
              sectionToReadStart |-> 0, sectionToReadEnd |-> 0,
              bufferValidStart |-> vs, bufferValidEnd |-> ve]

\* a selection whose cold path leaves the old range published
SelectSection_RangeNotDiscarded(vs, ve, pos, cap) ==
    LET nBVS == jmax(0, pos)
        nBVE == nBVS + cap - GuardSamples
    IN  IF nBVS < vs \/ nBVS >= ve
        THEN [newBVS |-> nBVS, newBVE |-> jmin(nBVE, nBVS + maxChunkSize),
              sectionToReadStart |-> nBVS,
              sectionToReadEnd |-> jmin(nBVE, nBVS + maxChunkSize),
              bufferValidStart |-> vs, bufferValidEnd |-> ve]
        ELSE IF abs(nBVS - vs) > DriftThreshold \/ abs(nBVE - ve) > DriftThreshold
        THEN [newBVS |-> nBVS, newBVE |-> jmin(nBVE, ve + maxChunkSize),
              sectionToReadStart |-> ve,
              sectionToReadEnd |-> jmin(nBVE, ve + maxChunkSize),
              bufferValidStart |-> nBVS,
              bufferValidEnd |-> jmin(ve, jmin(nBVE, ve + maxChunkSize))]
        ELSE [newBVS |-> nBVS, newBVE |-> nBVE,
              sectionToReadStart |-> 0, sectionToReadEnd |-> 0,
              bufferValidStart |-> vs, bufferValidEnd |-> ve]

\* lines 238-272: what the first critical section decides, from the range (vs, ve)
\* left by the looping check
SelectSection(vs, ve, pos, cap) ==
    LET nBVS == jmax(0, pos)
        nBVE == nBVS + cap - GuardSamples
    IN  IF nBVS < vs \/ nBVS >= ve
        THEN [newBVS |-> nBVS, newBVE |-> jmin(nBVE, nBVS + maxChunkSize),
              sectionToReadStart |-> nBVS,
              sectionToReadEnd |-> jmin(nBVE, nBVS + maxChunkSize),
              bufferValidStart |-> 0, bufferValidEnd |-> 0]
        ELSE IF abs(nBVS - vs) > DriftThreshold \/ abs(nBVE - ve) > DriftThreshold
        THEN [newBVS |-> nBVS, newBVE |-> jmin(nBVE, ve + maxChunkSize),
              sectionToReadStart |-> ve,
              sectionToReadEnd |-> jmin(nBVE, ve + maxChunkSize),
              bufferValidStart |-> nBVS,
              bufferValidEnd |-> jmin(ve, jmin(nBVE, ve + maxChunkSize))]
        ELSE [newBVS |-> nBVS, newBVE |-> nBVE,
              sectionToReadStart |-> 0, sectionToReadEnd |-> 0,
              bufferValidStart |-> vs, bufferValidEnd |-> ve]

\* a time slice that always asks to be called again at once
useTimeSlice_AlwaysBusy(didWork) == HintBusy

\* lines 324-327: the delay asked of the TimeSliceThread, from what
\* readNextBufferChunk returned
useTimeSlice(didWork) == IF didWork THEN HintBusy ELSE HintIdle

\* line 236: the time slice starts by taking bufferRangeLock
BgLockRange ==
    /\ Alive
    /\ bgpc = "idle"
    /\ registered
    /\ bufferRangeLock = "free"
    /\ bufferRangeLock' = "bg"
    /\ bgpc' = "select"
    /\ UNCHANGED <<isPrepared, sampleRate, prefillBuffer, capacity, buffer,
                   bufferValidStart, bufferValidEnd, nextPlayPos, wasSourceLooping,
                   callbackLock, bufferReadyEvent, registered>>
    /\ UNCHANGED <<newBVS, newBVE, sections, timeSliceHint>>
    /\ UNCHANGED <<srcVars, rtVars, ownVars>>
    /\ UNCHANGED wtVars

\* a first critical section that forgets to end before the I/O
UnlockAfterSelect_StillHeld == "bg"

\* line 273: the scope of the first ScopedLock ends
UnlockAfterSelect == "free"

\* a looping check that keeps the range
LoopingCheck_RangeKept(changed, v) == v

\* lines 238-243: a change of the looping mode empties the range
LoopingCheck(changed, v) == IF changed THEN 0 ELSE v

\* lines 238-276 and 280-300: select the section, leave the critical section,
\* return false when nothing was selected
BgSelect ==
    /\ Alive
    /\ bgpc = "select"
    /\ LET changed == wasSourceLooping # srcLooping
           vs == LoopingCheck(changed, bufferValidStart)
           ve == LoopingCheck(changed, bufferValidEnd)
           sel == SelectSection(vs, ve, nextPlayPos, capacity)
       IN  /\ wasSourceLooping' = srcLooping
           /\ bufferValidStart' = sel.bufferValidStart
           /\ bufferValidEnd' = sel.bufferValidEnd
           /\ IF sel.sectionToReadStart = sel.sectionToReadEnd
              THEN /\ newBVS' = 0
                   /\ newBVE' = 0
                   /\ sections' = <<>>
                   /\ timeSliceHint' = useTimeSlice(FALSE)
                   /\ bgpc' = "idle"
              ELSE /\ newBVS' = sel.newBVS
                   /\ newBVE' = sel.newBVE
                   /\ sections' = SplitSections(sel.sectionToReadStart,
                                                sel.sectionToReadEnd, capacity)
                   /\ timeSliceHint' = timeSliceHint
                   /\ bgpc' = "seek"
    /\ bufferRangeLock' = UnlockAfterSelect
    /\ seekPending' = <<>>
    /\ UNCHANGED <<seekArg, posRet>>
    /\ UNCHANGED <<isPrepared, sampleRate, prefillBuffer, capacity, buffer,
                   nextPlayPos, callbackLock, bufferReadyEvent, registered>>
    /\ UNCHANGED <<srcVars, rtVars, ownpc, ownArgs, ownerOps>>
    /\ wtCover' = IF bufferValidStart' = bufferValidStart /\ bufferValidEnd' = bufferValidEnd
                  THEN wtCover ELSE "no"
    /\ UNCHANGED wtCallVars

\* lines 315-316: reposition the source when it is not at the section start
BgSeek ==
    /\ Alive
    /\ bgpc = "seek"
    /\ srcPos' = IF SourcePosition # sections[1][1] THEN sections[1][1] ELSE srcPos
    /\ bgpc' = "lock"
    /\ UNCHANGED <<compVars, srcLooping, srcTotalLength, srcFailed, rtVars, ownVars>>
    /\ UNCHANGED <<newBVS, newBVE, sections, timeSliceHint>>
    /\ UNCHANGED wtVars

\* a source read that does not take callbackLock
LockedForSourceRead_NotTaken == "free"

\* line 320: the ScopedLock on callbackLock
LockedForSourceRead == "bg"

\* line 320
BgLockCallback ==
    /\ Alive
    /\ bgpc = "lock"
    /\ callbackLock = "free"
    /\ callbackLock' = LockedForSourceRead
    /\ bgpc' = "read"
    /\ UNCHANGED <<isPrepared, sampleRate, prefillBuffer, capacity, buffer,
                   bufferValidStart, bufferValidEnd, nextPlayPos, wasSourceLooping,
                   bufferRangeLock, bufferReadyEvent, registered>>
    /\ UNCHANGED <<newBVS, newBVE, sections, timeSliceHint>>
    /\ UNCHANGED <<srcVars, rtVars, ownVars>>
    /\ UNCHANGED wtVars

\* the cache after the source wrote length samples at bufferOffset
WrittenBuffer(buf, cap, from, length, bufferOffset, looping) ==
    [i \in 0..(cap - 1) |->
        IF i >= bufferOffset /\ i < bufferOffset + length
        THEN SourceSample(from + (i - bufferOffset), looping, srcTotalLength)
        ELSE buf[i]]

\* line 321: the source delivers the section into the cache; the lock is released
BgRead ==
    /\ Alive
    /\ bgpc = "read"
    /\ buffer' = WrittenBuffer(buffer, capacity, srcPos, sections[1][2],
                               sections[1][3], srcLooping)
    /\ srcPos' = srcPos + sections[1][2]
    /\ callbackLock' = "free"
    /\ sections' = Tail(sections)
    /\ bgpc' = IF Tail(sections) = <<>> THEN "commit" ELSE "seek"
    /\ UNCHANGED <<isPrepared, sampleRate, prefillBuffer, capacity,
                   bufferValidStart, bufferValidEnd, nextPlayPos, wasSourceLooping,
                   bufferRangeLock, bufferReadyEvent, registered>>
    /\ UNCHANGED <<newBVS, newBVE, timeSliceHint>>
    /\ UNCHANGED <<srcLooping, srcTotalLength, srcFailed, rtVars, ownVars>>
    /\ UNCHANGED wtVars

\* line 321, with a source whose read fails: it delivers no data and stays
\* where it is; getNextAudioBlock returns nothing, the lock is released
BgReadFails ==
    /\ Alive
    /\ bgpc = "read"
    /\ srcFailed' = <<sections[1][1], sections[1][2]>>
    /\ callbackLock' = "free"
    /\ sections' = Tail(sections)
    /\ bgpc' = IF Tail(sections) = <<>> THEN "commit" ELSE "seek"
    /\ UNCHANGED <<isPrepared, sampleRate, prefillBuffer, capacity, buffer,
                   bufferValidStart, bufferValidEnd, nextPlayPos, wasSourceLooping,
                   bufferRangeLock, bufferReadyEvent, registered>>
    /\ UNCHANGED <<newBVS, newBVE, timeSliceHint>>
    /\ UNCHANGED <<srcPos, srcLooping, srcTotalLength, rtVars, ownVars>>
    /\ UNCHANGED wtVars

\* lines 302-307: publish the new range under bufferRangeLock
BgCommit ==
    /\ Alive
    /\ bgpc = "commit"
    /\ bufferRangeLock = "free"
    /\ bufferValidStart' = newBVS
    /\ bufferValidEnd' = newBVE
    /\ bgpc' = "signal"
    /\ UNCHANGED <<isPrepared, sampleRate, prefillBuffer, capacity, buffer,
                   nextPlayPos, wasSourceLooping,
                   bufferRangeLock, callbackLock, bufferReadyEvent, registered>>
    /\ UNCHANGED <<newBVS, newBVE, sections, timeSliceHint>>
    /\ UNCHANGED <<srcVars, rtVars, ownVars>>
    /\ wtCover' = IF WaitInProgress /\ wtNow <= wtTimeout
                     /\ Covered(nextPlayPos, wtN, newBVS, newBVE)
                  THEN "committed" ELSE "no"
    /\ UNCHANGED wtCallVars

\* a signal that leaves nothing pending
SignalledEvent_Lost == FALSE

\* line 309: the event stays signalled until a wait consumes it
SignalledEvent == TRUE

\* lines 309-310 and 326
BgSignal ==
    /\ Alive
    /\ bgpc = "signal"
    /\ bufferReadyEvent' = SignalledEvent
    /\ timeSliceHint' = useTimeSlice(TRUE)
    /\ bgpc' = "idle"
    /\ newBVS' = 0
    /\ newBVE' = 0
    /\ UNCHANGED <<isPrepared, sampleRate, prefillBuffer, capacity, buffer,
                   bufferValidStart, bufferValidEnd, nextPlayPos, wasSourceLooping,
                   bufferRangeLock, callbackLock, registered>>
    /\ UNCHANGED sections
    /\ srcFailed' = <<>>
    /\ UNCHANGED <<srcPos, srcLooping, srcTotalLength, rtVars, ownVars>>
    /\ wtCover' = IF wtCover = "committed" /\ WaitInProgress THEN "signalled" ELSE wtCover
    /\ UNCHANGED wtCallVars

(* ------------- owner thread: prepareToPlay, releaseResources ----------- *)
\* a capacity that does not double the block size
bufferSizeNeeded_HintNotDoubled(samplesPerBlockExpected) ==
    jmax(samplesPerBlockExpected, numberOfSamplesToBuffer)

\* a capacity that ignores the block size
bufferSizeNeeded_MinimumOnly(samplesPerBlockExpected) ==
    numberOfSamplesToBuffer

\* line 52
bufferSizeNeeded(samplesPerBlockExpected) ==
    jmax(samplesPerBlockExpected * 2, numberOfSamplesToBuffer)

\* a test that asks for the reset on every call
ResetNeeded_Always(newSampleRate, needed) == TRUE

\* lines 54-56
ResetNeeded(newSampleRate, needed) ==
    \/ newSampleRate # sampleRate
    \/ needed # capacity
    \/ ~isPrepared

\* ownArgs: the arguments of the last prepareToPlay call and whether it took
\* the branch of lines 57-84; cleared by releaseResources
\* lines 52-63: nothing to do, or deregister (which waits for a running time slice)
PrepareBegin(samplesPerBlockExpected, newSampleRate) ==
    /\ Alive
    /\ OwnerStarts
    /\ IF ResetNeeded(newSampleRate, bufferSizeNeeded(samplesPerBlockExpected))
       THEN /\ bgpc = "idle"
            /\ registered' = FALSE
            /\ isPrepared' = TRUE
            /\ sampleRate' = newSampleRate
            /\ ownArgs' = <<samplesPerBlockExpected, newSampleRate, TRUE>>
            /\ ownpc' = "resize"
            /\ rtLifecycle' = (rtLifecycle \/ rtpc = "wantCallbackLock")
       ELSE /\ ownArgs' = <<samplesPerBlockExpected, newSampleRate, FALSE>>
            /\ UNCHANGED <<registered, isPrepared, sampleRate, ownpc, rtLifecycle>>
    /\ UNCHANGED <<seekPending, seekArg, posRet>>
    /\ UNCHANGED <<prefillBuffer, capacity, buffer, bufferValidStart, bufferValidEnd,
                   nextPlayPos, wasSourceLooping, bufferRangeLock, callbackLock,
                   bufferReadyEvent>>
    /\ UNCHANGED <<rtpc, rtN, rtPos, rtRange, out, rtSeeked, rtRet>>
    /\ UNCHANGED <<srcVars, bgVars>>
    /\ UNCHANGED wtVars

\* lines 65-66: resize and clear the storage (no lock is held)
PrepareResize ==
    /\ Alive
    /\ ownpc = "resize"
    /\ capacity' = bufferSizeNeeded(ownArgs[1])
    /\ buffer' = [i \in 0..(bufferSizeNeeded(ownArgs[1]) - 1) |-> 0]
    /\ ownpc' = "reset"
    /\ rtLifecycle' = (rtLifecycle \/ rtpc = "wantCallbackLock")
    /\ UNCHANGED <<isPrepared, sampleRate, prefillBuffer,
                   bufferValidStart, bufferValidEnd, nextPlayPos, wasSourceLooping,
                   bufferRangeLock, callbackLock, bufferReadyEvent, registered>>
    /\ UNCHANGED <<rtpc, rtN, rtPos, rtRange, out, rtSeeked, rtRet>>
    /\ UNCHANGED <<srcVars, bgVars, ownArgs, ownerOps, seekPending, seekArg, posRet>>
    /\ UNCHANGED wtVars

\* lines 68-80: empty the range under bufferRangeLock, register, unlock to sleep
PrepareReset ==
    /\ Alive
    /\ ownpc = "reset"
    /\ bufferRangeLock = "free"
    /\ bufferValidStart' = 0
    /\ bufferValidEnd' = 0
    /\ registered' = TRUE
    /\ ownpc' = "sleep"
    /\ rtLifecycle' = (rtLifecycle \/ rtpc = "wantCallbackLock")
    /\ UNCHANGED <<isPrepared, sampleRate, prefillBuffer, capacity, buffer,
                   nextPlayPos, wasSourceLooping,
                   bufferRangeLock, callbackLock, bufferReadyEvent>>
    /\ UNCHANGED <<rtpc, rtN, rtPos, rtRange, out, rtSeeked, rtRet>>
    /\ UNCHANGED <<srcVars, bgVars, ownArgs, ownerOps, seekPending, seekArg, posRet>>
    /\ wtCover' = IF bufferValidStart = 0 /\ bufferValidEnd = 0 THEN wtCover ELSE "no"
    /\ UNCHANGED wtCallVars

\* a loop that waits for the whole storage to be valid
PrefillTarget_WholeStorage(newSampleRate, cap) == cap

\* a loop that waits for nothing
PrefillTarget_Nothing(newSampleRate, cap) == 0

\* the pre-fill target of line 83
PrefillTarget(newSampleRate, cap) == jmin(newSampleRate \div 4, cap \div 2)

\* lines 81-84: relock after the sleep and test the loop condition
PrepareWake ==
    /\ Alive
    /\ ownpc = "sleep"
    /\ bufferRangeLock = "free"
    /\ ownpc' = IF prefillBuffer
                   /\ bufferValidEnd - bufferValidStart < PrefillTarget(ownArgs[2], capacity)
                THEN "sleep" ELSE "idle"
    /\ ownpc' # ownpc
    /\ UNCHANGED <<compVars, srcVars, rtVars, bgVars, ownArgs, ownerOps, seekPending, seekArg, posRet>>
    /\ UNCHANGED wtVars

\* a release that keeps the storage
ReleasedSize_NotShrunk == MinSamplesToBuffer

\* line 92: the size releaseResources gives the storage
ReleasedSize == 0

\* lines 87-99
releaseResources ==
    /\ Alive
    /\ OwnerStarts
    /\ bgpc = "idle"
    /\ isPrepared' = FALSE
    /\ registered' = FALSE
    /\ capacity' = ReleasedSize
    /\ buffer' = <<>>
    /\ ownArgs' = <<0, 0, FALSE>>
    /\ rtLifecycle' = (rtLifecycle \/ rtpc = "wantCallbackLock")
    /\ UNCHANGED <<sampleRate, prefillBuffer,
                   bufferValidStart, bufferValidEnd, nextPlayPos, wasSourceLooping,
                   bufferRangeLock, callbackLock, bufferReadyEvent>>
    /\ UNCHANGED <<rtpc, rtN, rtPos, rtRange, out, rtSeeked, rtRet>>
    /\ UNCHANGED <<srcVars, bgVars, ownpc, seekPending, seekArg, posRet>>
    /\ UNCHANGED wtVars

(* ------------- a caller of waitForNextAudioBlockReady ------------------ *)
\* std::numeric_limits<uint32>::max() + 1 and std::numeric_limits<int>::max()
UIntRange == 2 ^ CounterBits
IntMax == 2 ^ (CounterBits - 1) - 1

\* an elapsed time that is the difference on the ring of counter values
Elapsed_Ring(now, startTime) == (now - startTime) % UIntRange

\* lines 172-173 and 196-197: the time since startTime, from two readings of
\* the millisecond counter (the counter is taken to read 0 when a call starts,
\* except where its rollover is examined)
Elapsed(now, startTime) ==
    IF now >= startTime THEN now - startTime
    ELSE ((UIntRange - 1) - startTime) + now

\* static_cast<int> of a uint32
CastToInt(x) == IF x > IntMax THEN x - UIntRange ELSE x

\* a test that looks at the start of the range only
BlockReady_StartOnly(range, numSamples) ==
    /\ range[1] <= 0
    /\ range[1] < range[2]

\* lines 182-184
BlockReady(range, numSamples) ==
    /\ range[1] <= 0
    /\ range[1] < range[2]
    /\ range[2] >= numSamples

\* WaitableEvent::wait (timeOutMilliseconds) returns false after that time; a
\* negative time means to wait until the event is signalled
WaitEnds(timeOutMilliseconds, waited) ==
    /\ timeOutMilliseconds >= 0
    /\ waited >= timeOutMilliseconds

\* there is nothing to wait for: the source is empty, or it is not looping
\* and the cursor is beyond its total length
NothingToWaitFor ==
    \/ srcTotalLength <= 0
    \/ ~srcLooping /\ nextPlayPos > srcTotalLength

\* lines 162-173: the entry tests, then the first reading of the counter
WaitBegin(numSamples, timeout) ==
    /\ Alive
    /\ wtpc = "idle"
    /\ wtN' = numSamples
    /\ wtTimeout' = timeout
    /\ wtNow' = 0
    /\ wtStartTime' = 0
    /\ wtElapsed' = Elapsed(0, 0)
    /\ wtArg' = 0
    /\ wtWaitStart' = 0
    /\ wtHist' = [NoHist EXCEPT !.nothingToWaitFor = NothingToWaitFor]
    /\ wtCover' = "no"
    /\ IF srcTotalLength <= 0
       THEN /\ wtpc' = "done"
            /\ wtRet' = "false"
       ELSE IF \/ nextPlayPos + numSamples < 0
               \/ ~srcLooping /\ nextPlayPos > srcTotalLength
       THEN /\ wtpc' = "done"
            /\ wtRet' = "true"
       ELSE /\ wtpc' = "check"
            /\ wtRet' = "none"
    /\ UNCHANGED <<compVars, srcVars, rtVars, bgVars, ownVars>>

\* lines 177-193: read the range under bufferRangeLock; return, wait or go on
WaitCheck ==
    /\ Alive
    /\ wtpc = "check"
    /\ bufferRangeLock = "free"
    /\ wtHist' = [wtHist EXCEPT !.checks = 1]
    /\ LET bufferRange == GetValidBufferRange(bufferValidStart, bufferValidEnd,
                                              nextPlayPos, wtN)
       IN  IF BlockReady(bufferRange, wtN)
           THEN /\ wtpc' = "done"
                /\ wtRet' = "true"
                /\ UNCHANGED <<wtArg, wtWaitStart>>
           ELSE IF wtElapsed < wtTimeout
           THEN /\ wtpc' = "wait"
                /\ wtArg' = CastToInt(wtTimeout - wtElapsed)
                /\ wtWaitStart' = wtNow
                /\ wtRet' = wtRet
           ELSE /\ wtpc' = "clock"
                /\ UNCHANGED <<wtArg, wtWaitStart, wtRet>>
    /\ UNCHANGED <<wtN, wtTimeout, wtNow, wtElapsed, wtCover, wtStartTime>>
    /\ UNCHANGED <<compVars, srcVars, rtVars, bgVars, ownVars>>

\* line 190: the event was signalled; the wait consumes it and returns true
WaitSignalled ==
    /\ Alive
    /\ wtpc = "wait"
    /\ bufferReadyEvent
    /\ bufferReadyEvent' = FALSE
    /\ wtpc' = "clock"
    /\ wtHist' = [wtHist EXCEPT !.waits = 1]
    /\ UNCHANGED <<wtN, wtTimeout, wtNow, wtElapsed, wtArg, wtWaitStart, wtRet, wtCover,
                   wtStartTime>>
    /\ UNCHANGED <<isPrepared, sampleRate, prefillBuffer, capacity, buffer,
                   bufferValidStart, bufferValidEnd, nextPlayPos, wasSourceLooping,
                   bufferRangeLock, callbackLock, registered>>
    /\ UNCHANGED <<srcVars, rtVars, bgVars, ownVars>>

\* lines 190-193: the wait ran for its whole time without a signal (a negative
\* time has no end)
WaitTimedOut ==
    /\ Alive
    /\ wtpc = "wait"
    /\ ~bufferReadyEvent
    /\ WaitEnds(wtArg, wtNow - wtWaitStart)
    /\ wtpc' = "done"
    /\ wtRet' = "false"
    /\ wtHist' = [wtHist EXCEPT !.waits = 1]
    /\ UNCHANGED <<wtN, wtTimeout, wtNow, wtElapsed, wtArg, wtWaitStart, wtCover,
                   wtStartTime>>
    /\ UNCHANGED <<compVars, srcVars, rtVars, bgVars, ownVars>>

\* lines 195-198 and 175, 200: read the counter, leave the loop when the time is up
WaitClock ==
    /\ Alive
    /\ wtpc = "clock"
    /\ wtElapsed' = Elapsed(wtNow % UIntRange, wtStartTime)
    /\ IF Elapsed(wtNow % UIntRange, wtStartTime) <= wtTimeout
       THEN /\ wtpc' = "check"
            /\ wtRet' = wtRet
       ELSE /\ wtpc' = "done"
            /\ wtRet' = "false"
    /\ UNCHANGED <<wtN, wtTimeout, wtNow, wtArg, wtWaitStart, wtHist, wtCover, wtStartTime>>
    /\ UNCHANGED <<compVars, srcVars, rtVars, bgVars, ownVars>>

\* Time::getMillisecondCounter moves on while the call is in progress
Tick ==
    /\ Alive
    /\ WaitInProgress
    /\ wtNow < MaxClock
    /\ wtNow' = wtNow + 1
    /\ UNCHANGED <<wtpc, wtN, wtTimeout, wtElapsed, wtArg, wtWaitStart, wtRet, wtHist, wtCover,
                   wtStartTime>>
    /\ UNCHANGED <<compVars, srcVars, rtVars, bgVars, ownVars>>

(* --------------------------- specification ----------------------------- *)
Next ==
    \/ \E n \in NumSamplesSet : RtGetValidBufferRange(n)
    \/ RtCopy
    \/ RtReturn
    \/ BgLockRange
    \/ BgSelect
    \/ BgSeek
    \/ BgLockCallback
    \/ BgRead
    \/ BgCommit
    \/ BgSignal
    \/ \E p \in SeekSet : setNextReadPosition(p)
    \/ \E spb \in BlockSizeSet : \E sr \in SampleRateSet : PrepareBegin(spb, sr)
    \/ PrepareResize
    \/ PrepareReset
    \/ PrepareWake
    \/ releaseResources

Spec == Init /\ [][Next]_vars

\* the same, with the owner switching the looping mode during playback
NextLooping == Next \/ SourceSetLooping

SpecLooping == Init /\ [][NextLooping]_vars

(* ------------------ the lifecycle and the refill ----------------------- *)
InitConfigure == InitWith(MaxConfigureOps, TotalLength)

NextConfigure ==
    \/ BgLockRange
    \/ BgSelect
    \/ BgSeek
    \/ BgLockCallback
    \/ BgRead
    \/ BgCommit
    \/ BgSignal
    \/ \E spb \in ConfigureBlockSizeSet : \E sr \in SampleRateSet : PrepareBegin(spb, sr)
    \/ PrepareResize
    \/ PrepareReset
    \/ PrepareWake
    \/ releaseResources

SpecConfigure == InitConfigure /\ [][NextConfigure]_vars

(* ------------- a caller waiting for the next block --------------------- *)
\* the source is empty or has TotalLength samples
InitWait ==
    \E length \in {0, TotalLength} : InitWith(MaxWaitOps, length)

NextWait ==
    \/ \E n \in WaitSizeSet : \E t \in WaitTimeoutSet : WaitBegin(n, t)
    \/ WaitCheck
    \/ WaitSignalled
    \/ WaitTimedOut
    \/ WaitClock
    \/ Tick
    \/ BgLockRange
    \/ BgSelect
    \/ BgSeek
    \/ BgLockCallback
    \/ BgRead
    \/ BgCommit
    \/ BgSignal
    \/ \E p \in WaitSeekSet : setNextReadPosition(p)
    \/ \E spb \in BlockSizeSet : \E sr \in SampleRateSet : PrepareBegin(spb, sr)
    \/ PrepareResize
    \/ PrepareReset
    \/ PrepareWake

SpecWait == InitWait /\ [][NextWait]_vars

(* ------------- the wraparound addressing on its own -------------------- *)
\* a cache of a small capacity whose valid range is an arbitrary absolute range
\* [s, s+len) with 0 < len <= capacity, the cursor at s; slot i holds i
InitSplit ==
    /\ isPrepared = TRUE
    /\ sampleRate = 0
    /\ prefillBuffer = FALSE
    /\ capacity \in 1..MaxSplitCapacity
    /\ buffer = [i \in 0..(capacity - 1) |-> i]
    /\ bufferValidStart \in 0..MaxSplitStart
    /\ bufferValidEnd \in (bufferValidStart + 1)..(bufferValidStart + capacity)
    /\ nextPlayPos = bufferValidStart
    /\ wasSourceLooping = FALSE
    /\ bufferRangeLock = "free"
    /\ callbackLock = "free"
    /\ bufferReadyEvent = FALSE
    /\ registered = FALSE
    /\ srcPos = 0
    /\ srcLooping = FALSE
    /\ rtpc = "idle"
    /\ rtN = 0
    /\ rtPos = 0
    /\ rtRange = <<(<<0, 0>>), 0, 0>>
    /\ out = <<>>
    /\ rtSeeked = FALSE
    /\ rtLifecycle = FALSE
    /\ rtRet = NoRet
    /\ bgpc = "idle"
    /\ newBVS = 0
    /\ newBVE = 0
    /\ sections = <<>>
    /\ timeSliceHint = HintIdle
    /\ ownpc = "idle"
    /\ ownArgs = <<0, 0, FALSE>>
    /\ ownerOps = 0
    /\ seekPending = <<>>
    /\ seekArg = <<>>
    /\ posRet = <<>>
    /\ srcTotalLength = TotalLength
    /\ srcFailed = <<>>
    /\ wtpc = "idle"
    /\ wtN = 0
    /\ wtTimeout = 0
    /\ wtNow = 0
    /\ wtElapsed = 0
    /\ wtArg = 0
    /\ wtWaitStart = 0
    /\ wtRet = "none"
    /\ wtHist = NoHist
    /\ wtCover = "no"
    /\ wtStartTime = 0

\* lines 280-300 applied to the range: the refill's write segments
SplitRefillWrite ==
    /\ bgpc = "idle"
    /\ sections' = SplitSections(bufferValidStart, bufferValidEnd, capacity)
    /\ bgpc' = "seek"
    /\ UNCHANGED <<compVars, srcVars, rtVars, ownVars>>
    /\ UNCHANGED <<newBVS, newBVE, timeSliceHint>>
    /\ UNCHANGED wtVars

\* lines 124-155 applied to the range: the read path's copy of the whole range
SplitReadCopy ==
    /\ rtpc = "idle"
    /\ LET len == bufferValidEnd - bufferValidStart
       IN  /\ rtN' = len
           /\ IF CopyDefined(0, len, nextPlayPos, capacity)
              THEN /\ out' = CopiedBlock(0, len, nextPlayPos, capacity, len, buffer)
                   /\ rtpc' = "done"
              ELSE /\ out' = [i \in 0..(len - 1) |-> Garbage]
                   /\ rtpc' \in {"done", "crashed"}
    /\ UNCHANGED <<compVars, srcVars, bgVars, ownVars>>
    /\ UNCHANGED <<rtPos, rtRange, rtSeeked, rtLifecycle, rtRet>>
    /\ UNCHANGED wtVars

NextSplit ==
    \/ SplitRefillWrite
    \/ SplitReadCopy

SpecSplit == InitSplit /\ [][NextSplit]_vars

(* ------------------- a source whose reads may fail --------------------- *)
InitSourceFailure == InitWith(MaxOwnerOps, TotalLength)

NextSourceFailure ==
    \/ BgLockRange
    \/ BgSelect
    \/ BgSeek
    \/ BgLockCallback
    \/ BgRead
    \/ BgReadFails
    \/ BgCommit
    \/ BgSignal
    \/ \E p \in SeekSet : setNextReadPosition(p)
    \/ \E spb \in BlockSizeSet : \E sr \in SampleRateSet : PrepareBegin(spb, sr)
    \/ PrepareResize
    \/ PrepareReset
    \/ PrepareWake

SpecSourceFailure == InitSourceFailure /\ [][NextSourceFailure]_vars

(* ------------- the elapsed time across a counter rollover -------------- *)
\* the component and the wrapped source after construction
Constructed(prefillBufferOnPrepareToPlay, length) ==
    /\ isPrepared = FALSE
    /\ sampleRate = 0
    /\ prefillBuffer = prefillBufferOnPrepareToPlay
    /\ capacity = 0
    /\ buffer = <<>>
    /\ bufferValidStart = 0
    /\ bufferValidEnd = 0
    /\ nextPlayPos = 0
    /\ wasSourceLooping = FALSE
    /\ bufferRangeLock = "free"
    /\ callbackLock = "free"
    /\ bufferReadyEvent = FALSE
    /\ registered = FALSE
    /\ srcPos = 0
    /\ srcLooping = FALSE
    /\ srcTotalLength = length
    /\ srcFailed = <<>>

\* no call is in progress on the real-time thread, on the TimeSliceThread or
\* on the owner thread, which may start ops operations
NoCallInProgress(ops) ==
    /\ rtpc = "idle"
    /\ rtN = 0
    /\ rtPos = 0
    /\ rtRange = <<(<<0, 0>>), 0, 0>>
    /\ out = <<>>
    /\ rtSeeked = FALSE
    /\ rtLifecycle = FALSE
    /\ rtRet = NoRet
    /\ bgpc = "idle"
    /\ newBVS = 0
    /\ newBVE = 0
    /\ sections = <<>>
    /\ timeSliceHint = HintIdle
    /\ ownpc = "idle"
    /\ ownArgs = <<0, 0, FALSE>>
    /\ ownerOps = ops
    /\ seekPending = <<>>
    /\ seekArg = <<>>
    /\ posRet = <<>>

\* no waitForNextAudioBlockReady call is in progress
NoWaitInProgress ==
    /\ wtpc = "idle"
    /\ wtN = 0
    /\ wtTimeout = 0
    /\ wtNow = 0
    /\ wtElapsed = 0
    /\ wtArg = 0
    /\ wtWaitStart = 0
    /\ wtRet = "none"
    /\ wtHist = NoHist
    /\ wtCover = "no"
    /\ wtStartTime = 0

\* a waitForNextAudioBlockReady call at line 195, for every reading startTime
\* of the counter at line 169 and every reading now at line 195
InitClock ==
    /\ Constructed(FALSE, TotalLength)
    /\ NoCallInProgress(0)
    /\ wtpc = "clock"
    /\ wtN \in WaitSizeSet
    /\ wtTimeout \in WaitTimeoutSet
    /\ wtStartTime \in 0..(UIntRange - 1)
    /\ wtNow \in 0..(UIntRange - 1)
    /\ wtElapsed = 0
    /\ wtArg = 0
    /\ wtWaitStart = 0
    /\ wtRet = "none"
    /\ wtHist = [NoHist EXCEPT !.checks = 1]
    /\ wtCover = "no"

NextClock ==
    \/ WaitClock

SpecClock == InitClock /\ [][NextClock]_vars

(* ------------------- the scenarios of playback ------------------------- *)
\* a component constructed for ScenarioCapacity samples around a source of
\* ScenarioLength samples, after prepareToPlay (ScenarioBlock, 44100) returned
\* and before the first time slice
InitScenario ==
    /\ isPrepared = TRUE
    /\ sampleRate = 44100
    /\ prefillBuffer = FALSE
    /\ capacity = ScenarioCapacity
    /\ buffer = [i \in 0..(ScenarioCapacity - 1) |-> 0]
    /\ bufferValidStart = 0
    /\ bufferValidEnd = 0
    /\ nextPlayPos = 0
    /\ wasSourceLooping = FALSE
    /\ bufferRangeLock = "free"
    /\ callbackLock = "free"
    /\ bufferReadyEvent = FALSE
    /\ registered = TRUE
    /\ srcPos = 0
    /\ srcLooping = FALSE
    /\ srcTotalLength = ScenarioLength
    /\ srcFailed = <<>>
    /\ rtpc = "idle"
    /\ rtN = 0
    /\ rtPos = 0
    /\ rtRange = <<(<<0, 0>>), 0, 0>>
    /\ out = <<>>
    /\ rtSeeked = FALSE
    /\ rtLifecycle = FALSE
    /\ rtRet = NoRet
    /\ bgpc = "idle"
    /\ newBVS = 0
    /\ newBVE = 0
    /\ sections = <<>>
    /\ timeSliceHint = HintIdle
    /\ ownpc = "idle"
    /\ ownArgs = <<ScenarioBlock, 44100, TRUE>>
    /\ ownerOps = ScenarioOwnerOps
    /\ seekPending = <<>>
    /\ seekArg = <<>>
    /\ posRet = <<>>
    /\ NoWaitInProgress

\* a getNextAudioBlock call of the scenarios starts: one of the first blocks,
\* or the block at the seek target
ScenarioGetValidBufferRange(n) ==
    /\ nextPlayPos <= ScenarioBlock \/ nextPlayPos = ScenarioSeek
    /\ RtReadRange(n)

NextScenario ==
    \/ \E n \in {ScenarioBlock} : ScenarioGetValidBufferRange(n)
    \/ RtCopy
    \/ RtReturn
    \/ BgLockRange
    \/ BgSelect
    \/ BgSeek
    \/ BgLockCallback
    \/ BgRead
    \/ BgCommit
    \/ BgSignal
    \/ \E p \in {ScenarioSeek} : setNextReadPosition(p)

SpecScenario == InitScenario /\ [][NextScenario]_vars

\* a getNextAudioBlock call starts, near the start of the source
PositionGetValidBufferRange(n) ==
    /\ nextPlayPos <= MaxPositionPlayPos
    /\ RtReadRange(n)

(* ------------- a component that fills its cache in prepareToPlay ------- *)
\* constructed with prefillBufferOnPrepareToPlay set
InitPrefill ==
    /\ Constructed(TRUE, TotalLength)
    /\ NoCallInProgress(MaxOwnerOps)
    /\ NoWaitInProgress

NextPrefill ==
    \/ \E n \in NumSamplesSet : RtGetValidBufferRange(n)
    \/ RtCopy
    \/ RtReturn
    \/ BgLockRange
    \/ BgSelect
    \/ BgSeek
    \/ BgLockCallback
    \/ BgRead
    \/ BgCommit
    \/ BgSignal
    \/ \E spb \in BlockSizeSet : \E sr \in SampleRateSet : PrepareBegin(spb, sr)
    \/ PrepareResize
    \/ PrepareReset
    \/ PrepareWake

SpecPrefill == InitPrefill /\ [][NextPrefill]_vars

\* the same component, with storage that takes several time slices to fill
InitPrefillWait ==
    /\ Constructed(TRUE, TotalLength)
    /\ NoCallInProgress(MaxPrefillOps)
    /\ NoWaitInProgress

NextPrefillWait ==
    \/ \E n \in NumSamplesSet : PositionGetValidBufferRange(n)
    \/ RtCopy
    \/ RtReturn
    \/ BgLockRange
    \/ BgSelect
    \/ BgSeek
    \/ BgLockCallback
    \/ BgRead
    \/ BgCommit
    \/ BgSignal
    \/ \E spb \in PrefillBlockSizeSet : \E sr \in SampleRateSet : PrepareBegin(spb, sr)
    \/ PrepareResize
    \/ PrepareReset
    \/ PrepareWake

\* the TimeSliceThread keeps calling useTimeSlice, and the prepareToPlay call
\* goes on and gets bufferRangeLock once the refill releases it; the audio
\* callback may run or not
SpecPrefillWait ==
    /\ InitPrefillWait
    /\ [][NextPrefillWait]_vars
    /\ WF_vars(BgLockRange)
    /\ WF_vars(BgSelect)
    /\ WF_vars(BgSeek)
    /\ WF_vars(BgLockCallback)
    /\ WF_vars(BgRead)
    /\ WF_vars(BgCommit)
    /\ WF_vars(BgSignal)
    /\ WF_vars(PrepareResize)
    /\ SF_vars(PrepareReset)
    /\ SF_vars(PrepareWake)

(* ------------------------- playback ------------------------------------ *)
\* the component after prepareToPlay (512, 44100) returned, before the first
\* time slice, with a source in the given looping mode
InitPlayingWith(ops, looping) ==
    /\ isPrepared = TRUE
    /\ sampleRate = 44100
    /\ prefillBuffer = FALSE
    /\ capacity = bufferSizeNeeded(512)
    /\ buffer = [i \in 0..(bufferSizeNeeded(512) - 1) |-> 0]
    /\ bufferValidStart = 0
    /\ bufferValidEnd = 0
    /\ nextPlayPos = 0
    /\ wasSourceLooping = FALSE
    /\ bufferRangeLock = "free"
    /\ callbackLock = "free"
    /\ bufferReadyEvent = FALSE
    /\ registered = TRUE
    /\ srcPos = 0
    /\ srcLooping = looping
    /\ srcTotalLength = TotalLength
    /\ srcFailed = <<>>
    /\ rtpc = "idle"
    /\ rtN = 0
    /\ rtPos = 0
    /\ rtRange = <<(<<0, 0>>), 0, 0>>
    /\ out = <<>>
    /\ rtSeeked = FALSE
    /\ rtLifecycle = FALSE
    /\ rtRet = NoRet
    /\ bgpc = "idle"
    /\ newBVS = 0
    /\ newBVE = 0
    /\ sections = <<>>
    /\ timeSliceHint = HintIdle
    /\ ownpc = "idle"
    /\ ownArgs = <<512, 44100, TRUE>>
    /\ ownerOps = ops
    /\ seekPending = <<>>
    /\ seekArg = <<>>
    /\ posRet = <<>>
    /\ NoWaitInProgress

InitPlaying == InitPlayingWith(MaxPlayingOps, FALSE)

\* the real-time thread, the refill, seeks and changes of the looping mode
NextPlaying ==
    \/ \E n \in NumSamplesSet : RtGetValidBufferRange(n)
    \/ RtCopy
    \/ RtReturn
    \/ BgLockRange
    \/ BgSelect
    \/ BgSeek
    \/ BgLockCallback
    \/ BgRead
    \/ BgCommit
    \/ BgSignal
    \/ \E p \in SeekSet : setNextReadPosition(p)
    \/ SourceSetLooping

SpecPlaying == InitPlaying /\ [][NextPlaying]_vars

(* ------------------- asking for the position --------------------------- *)
\* setLooping was called or not before prepareToPlay
InitPosition == \E looping \in BOOLEAN : InitPlayingWith(MaxPositionOps, looping)

\* the real-time thread, the refill, and an owner that seeks and asks for the
\* position
NextPosition ==
    \/ \E n \in NumSamplesSet : PositionGetValidBufferRange(n)
    \/ RtCopy
    \/ RtReturn
    \/ BgLockRange
    \/ BgSelect
    \/ BgSeek
    \/ BgLockCallback
    \/ BgRead
    \/ BgCommit
    \/ BgSignal
    \/ \E p \in PositionSeekSet : setNextReadPosition(p)
    \/ GetNextReadPosition

SpecPosition == InitPosition /\ [][NextPosition]_vars

(* ------------------- catching up after a seek -------------------------- *)
\* the real-time thread, the refill and seeks
NextCatchUp ==
    \/ \E n \in NumSamplesSet : RtGetValidBufferRange(n)
    \/ RtCopy
    \/ RtReturn
    \/ BgLockRange
    \/ BgSelect
    \/ BgSeek
    \/ BgLockCallback
    \/ BgRead
    \/ BgCommit
    \/ BgSignal
    \/ \E p \in CatchUpSeekSet : setNextReadPosition(p)

\* the audio callback keeps calling getNextAudioBlock and gets the locks it
\* waits for once the refill releases them, and the TimeSliceThread keeps
\* calling useTimeSlice; the seeks are up to the owner
SpecCatchUp ==
    /\ InitPlaying
    /\ [][NextCatchUp]_vars
    /\ SF_vars(\E n \in NumSamplesSet : RtGetValidBufferRange(n))
    /\ SF_vars(RtCopy)
    /\ WF_vars(RtReturn)
    /\ WF_vars(BgLockRange)
    /\ WF_vars(BgSelect)
    /\ WF_vars(BgSeek)
    /\ WF_vars(BgLockCallback)
    /\ WF_vars(BgRead)
    /\ WF_vars(BgCommit)
    /\ WF_vars(BgSignal)

(* ------------------- configuring during playback ----------------------- *)
\* the real-time thread, the refill and prepareToPlay calls that keep or change
\* the capacity
NextReconfigure ==
    \/ \E n \in NumSamplesSet : RtGetValidBufferRange(n)
    \/ RtCopy
    \/ RtReturn
    \/ BgLockRange
    \/ BgSelect
    \/ BgSeek
    \/ BgLockCallback
    \/ BgRead
    \/ BgCommit
    \/ BgSignal
    \/ \E spb \in ReconfigureBlockSizeSet : PrepareBegin(spb, 44100)
    \/ PrepareResize
    \/ PrepareReset
    \/ PrepareWake

SpecReconfigure == InitPlaying /\ [][NextReconfigure]_vars

(* ------------------------------- claims -------------------------------- *)
\* a getNextAudioBlock call has just finished (or ended the process)
RtFinished == rtpc \in {"done", "crashed"} /\ rtRet.valid

\* C1: every readBlock(n) call that runs with no concurrent seek leaves the
\* cursor at its value before the call plus n, on a full hit, on a partial
\* miss and on a total miss.
C1_CursorAdvancesByN ==
    (RtFinished /\ ~rtRet.seeked) => rtRet.posAfter = rtRet.pos + rtRet.n

\* the block [pos, pos+n) and the range [vs, ve) have no position in common
NoIntersection(pos, n, vs, ve) == jmax(pos, vs) >= jmin(pos + n, ve)

\* C3: when the block and the valid range do not intersect at the moment the
\* call reads the valid range, all n output samples are zero and the call
\* reports no error.
C3_TotalMissIsSilence ==
    (RtFinished /\ NoIntersection(rtRet.pos, rtRet.n, rtRet.vs, rtRet.ve))
        => /\ rtpc = "done"
           /\ ~rtRet.ub
           /\ DOMAIN out = 0..(rtRet.n - 1)
           /\ \A i \in 0..(rtRet.n - 1) : out[i] = 0

\* C3 witness: a call returned silence although the valid range is not empty
C3_Witness ==
    /\ RtFinished
    /\ rtRet.vs < rtRet.ve
    /\ NoIntersection(rtRet.pos, rtRet.n, rtRet.vs, rtRet.ve)
    /\ \A i \in 0..(rtRet.n - 1) : out[i] = 0

\* C6: in every reachable state 0 <= validEnd - validStart <= capacity.
C6_RangeWithinCapacity ==
    /\ 0 <= bufferValidEnd - bufferValidStart
    /\ bufferValidEnd - bufferValidStart <= capacity

\* C7: while the source is not looping and reports a total length L > 0,
\* validEnd <= L in every reachable state.
C7_ValidEndWithinTotalLength ==
    (~srcLooping /\ TotalLength > 0) => bufferValidEnd <= TotalLength

\* C8: the read path never blocks on I/O: no state has a getNextAudioBlock call
\* waiting for a lock that the refill holds while it is inside the source read.
C8_ReadPathNeverWaitsForSourceRead ==
    ~(rtpc = "wantCallbackLock" /\ callbackLock = "bg" /\ bgpc = "read")

\* C9: bufferRangeLock is never held by a thread that is inside a source seek
\* or a source read.
C9_RangeLockNotHeldAcrossIO ==
    bgpc \in {"seek", "lock", "read"} => bufferRangeLock # "bg"

\* C9 witness: the refill is inside the source read, after it selected a
\* section under bufferRangeLock, and the lock is free
C9_Witness ==
    /\ bgpc = "read"
    /\ sections # <<>>
    /\ bufferRangeLock = "free"

\* C2: when [cursor, cursor+n) lies inside [validStart, validEnd) as the call
\* starts and no seek or configure runs during the call, every output sample
\* i is the source's sample of absolute position cursor+i, whatever the refill
\* does meanwhile.
C2_FullHitReturnsSourceData ==
    (/\ RtFinished
     /\ rtRet.n > 0
     /\ rtRet.vs <= rtRet.pos
     /\ rtRet.pos + rtRet.n <= rtRet.ve
     /\ ~rtRet.seeked
     /\ ~rtRet.lifecycle)
        => /\ rtpc = "done"
           /\ ~rtRet.ub
           /\ \A i \in 0..(rtRet.n - 1) : out[i] = SourceSample(rtRet.pos + i, srcLooping, srcTotalLength)

\* the call found a partial miss: an intersection [a, b) that is not empty and
\* is smaller than [0, n)
PartialMiss(range, n) ==
    /\ range[1] < range[2]
    /\ range[1] > 0 \/ range[2] < n

\* C4: on a partial miss the call zeroes the output samples [0,a) and [b,n) and
\* sets output sample i, for every i in [a,b), to the cached sample of absolute
\* position cursor+i.
C4_PartialMissCopiesIntersection ==
    [][(/\ rtpc = "wantCallbackLock"
        /\ rtpc' # rtpc
        /\ PartialMiss(rtRange[1], rtN))
          => /\ rtpc' = "done"
             /\ capacity > 0
             /\ \A i \in 0..(rtN - 1) :
                   out'[i] = IF i < rtRange[1][1] \/ i >= rtRange[1][2]
                             THEN 0
                             ELSE buffer[(rtPos + i) % capacity]]_vars

\* C5: whenever bufferRangeLock is free, every absolute position x of the
\* published range [validStart, validEnd) has the source's sample of x in the
\* physical slot x mod capacity.
C5_CacheCoherence ==
    bufferRangeLock = "free"
        => \A x \in bufferValidStart..(bufferValidEnd - 1) :
              /\ capacity > 0
              /\ buffer[x % capacity] = SourceSample(x, srcLooping, srcTotalLength)

CommitPublishesSelectedStart ==
    /\ (bgpc \in {"seek", "lock", "read"}) => newBVS' = newBVS
    /\ (bgpc = "commit" /\ bgpc' # bgpc) => bufferValidStart' = newBVS

\* C11: after seek(p) with max(0,p) outside the valid range of that moment,
\* the first refill invocation that starts after the seek publishes the empty
\* range (0, 0) before it reads from the source, and its commit publishes a
\* range that starts at max(0,p).
C11_SeekInvalidation ==
    [][/\ (bgpc = "select" /\ bgpc' # bgpc /\ seekPending # <<>>)
            => /\ bufferValidStart' = 0
               /\ bufferValidEnd' = 0
               /\ bgpc' = "seek"
               /\ newBVS' = jmax(0, seekPending[1])
       /\ CommitPublishesSelectedStart]_vars

\* C11, amended: the same, for a refill invocation that finds the cursor still
\* at p and max(0,p) outside the valid range it reads.
C11_SeekInvalidationCursorStillThere ==
    [][/\ (/\ bgpc = "select"
           /\ bgpc' # bgpc
           /\ seekPending # <<>>
           /\ nextPlayPos = seekPending[1]
           /\ SeekOutsideRange(nextPlayPos, bufferValidStart, bufferValidEnd))
            => /\ bufferValidStart' = 0
               /\ bufferValidEnd' = 0
               /\ bgpc' = "seek"
               /\ newBVS' = jmax(0, seekPending[1])
               /\ sections'[1][1] = jmax(0, seekPending[1])
       /\ CommitPublishesSelectedStart]_vars

\* C11 witness: a seek left the range [0, 1020) behind; the refill that
\* followed it has emptied and re-read the cache and published a range that
\* starts at the seek target
C11_Witness ==
    /\ bgpc = "signal"
    /\ nextPlayPos \in SeekSet
    /\ nextPlayPos > 0
    /\ bufferValidStart = nextPlayPos
    /\ bufferValidEnd > bufferValidStart
    /\ buffer[nextPlayPos % capacity] = SourceSample(nextPlayPos, srcLooping, srcTotalLength)

\* C12: when the looping flag of the source differs from the one the previous
\* refill invocation saw, the invocation takes the cold path whatever the
\* cursor is: it publishes the empty range and reads from max(0, cursor), not
\* from the end of the range it had.
C12_LoopingChangeForcesColdPath ==
    [][(bgpc = "select" /\ bgpc' # bgpc /\ wasSourceLooping # srcLooping)
          => /\ wasSourceLooping' = srcLooping
             /\ bufferValidStart' = 0
             /\ bufferValidEnd' = 0
             /\ bgpc' = "seek"
             /\ newBVS' = jmax(0, nextPlayPos)
             /\ newBVE' = jmin(newBVS' + capacity - GuardSamples, newBVS' + maxChunkSize)
             /\ sections'[1][1] = newBVS'
             /\ sections'[Len(sections')][1] + sections'[Len(sections')][2] = newBVE']_vars

\* C12 witness: the source was switched to looping while the cursor was inside
\* a cached range; the refill has emptied the range and is about to read again
\* from the cursor
C12_Witness ==
    /\ bgpc = "seek"
    /\ srcLooping
    /\ wasSourceLooping
    /\ bufferValidStart = 0
    /\ bufferValidEnd = 0
    /\ nextPlayPos > 0
    /\ buffer[nextPlayPos % capacity] = SourceSample(nextPlayPos, FALSE, srcTotalLength)
    /\ sections[1][1] = nextPlayPos

\* physical slot of the k-th sample written through the segments
SectionIndex(secs, k) ==
    IF k < secs[1][2] THEN secs[1][3] + k
    ELSE secs[2][3] + (k - secs[1][2])

\* total length of the segments
SectionsLength(secs) ==
    IF Len(secs) = 1 THEN secs[1][2] ELSE secs[1][2] + secs[2][2]

\* C13: for a capacity C and an absolute range [s, s+len) with 0 < len <= C, the
\* one or two physical segments of the refill write and of the read-path copy
\* have total length len, stay inside [0, C), do not overlap and are exactly
\* the slots x mod C of the positions x of the range, in order.
C13_WraparoundSplit ==
    LET s == bufferValidStart
        len == bufferValidEnd - bufferValidStart
        C == capacity
    IN  /\ bgpc = "seek"
            => /\ Len(sections) \in {1, 2}
               /\ SectionsLength(sections) = len
               /\ \A j \in 1..Len(sections) :
                     /\ sections[j][2] >= 0
                     /\ sections[j][3] >= 0
                     /\ sections[j][3] + sections[j][2] <= C
               /\ sections[1][1] = s
               /\ Len(sections) = 2 => sections[2][1] = s + sections[1][2]
               /\ \A k \in 0..(len - 1) : SectionIndex(sections, k) = (s + k) % C
               /\ \A k, l \in 0..(len - 1) :
                     k # l => SectionIndex(sections, k) # SectionIndex(sections, l)
        /\ rtpc \in {"done", "crashed"}
            => /\ rtpc = "done"
               /\ DOMAIN out = 0..(len - 1)
               /\ \A k \in 0..(len - 1) : out[k] = (s + k) % C
               /\ \A k, l \in 0..(len - 1) : k # l => out[k] # out[l]

\* C13 witness: a range that crosses the physical end of the storage was split
\* in two segments by the refill and copied in two parts by the read path
C13_Witness ==
    /\ bgpc = "seek"
    /\ rtpc = "done"
    /\ capacity > 2
    /\ Len(sections) = 2
    /\ sections[1][2] > 0
    /\ sections[2][2] > 0
    /\ out[0] > out[bufferValidEnd - bufferValidStart - 1]

\* C14: a prepareToPlay call with the block size and the sample rate of the
\* previous call, with no releaseResources in between, returns leaving the
\* capacity, the valid range, the cache contents and the registration with the
\* TimeSliceThread as they were.
C14_ConfigureIdempotent ==
    [][\A spb \in ConfigureBlockSizeSet : \A sr \in SampleRateSet :
          (/\ PrepareBegin(spb, sr)
           /\ isPrepared
           /\ ownArgs[1] = spb
           /\ ownArgs[2] = sr)
             => /\ ownpc' = "idle"
                /\ capacity' = capacity
                /\ buffer' = buffer
                /\ bufferValidStart' = bufferValidStart
                /\ bufferValidEnd' = bufferValidEnd
                /\ registered' = registered
                /\ isPrepared' = isPrepared]_vars

\* C14 witness: the second of two identical calls has returned without a
\* reset and the range the refill had cached is still published
C14_Witness ==
    /\ ownpc = "idle"
    /\ isPrepared
    /\ ownArgs = <<600, 48000, FALSE>>
    /\ capacity = 1200
    /\ registered
    /\ bufferValidStart = 0
    /\ bufferValidEnd = capacity - GuardSamples
    /\ buffer[bufferValidEnd - 1] = SourceSample(bufferValidEnd - 1, srcLooping, srcTotalLength)

\* max(2 * blockSizeHint, minBufferSamples)
RequiredCapacity(hint) ==
    IF 2 * hint > numberOfSamplesToBuffer THEN 2 * hint ELSE numberOfSamplesToBuffer

\* C15: a prepareToPlay call that is the first one, or that changes the sample
\* rate or the required capacity, deregisters the component before it resizes
\* the storage, gives the storage max(2 * blockSizeHint, minBufferSamples)
\* samples, resets the valid range to empty and registers the component again,
\* once; it returns configured, with that capacity, registered.
C15_ConfigureResets ==
    [][/\ \A spb \in ConfigureBlockSizeSet : \A sr \in SampleRateSet :
            (/\ PrepareBegin(spb, sr)
             /\ \/ ~isPrepared
                \/ sr # sampleRate
                \/ RequiredCapacity(spb) # capacity)
               => /\ ownpc' = "resize"
                  /\ ~registered'
                  /\ bgpc = "idle"
       /\ (ownpc = "resize" /\ ownpc' # ownpc)
            => /\ ~registered
               /\ bgpc = "idle"
               /\ capacity' = RequiredCapacity(ownArgs[1])
               /\ ~registered'
       /\ (ownpc = "reset" /\ ownpc' # ownpc)
            => /\ ~registered
               /\ capacity = RequiredCapacity(ownArgs[1])
               /\ bufferValidStart' = 0
               /\ bufferValidEnd' = 0
               /\ registered'
       /\ (ownpc = "sleep" /\ ownpc' = "idle")
            => /\ isPrepared
               /\ sampleRate = ownArgs[2]
               /\ capacity' = RequiredCapacity(ownArgs[1])
               /\ registered']_vars

\* C15 witness: a second call asked for a larger block; the storage has its
\* new size, the range that was cached under the old size is gone and the
\* component is registered again
C15_Witness ==
    /\ ownpc = "sleep"
    /\ ownerOps = MaxConfigureOps - 2
    /\ ownArgs = <<600, 44100, TRUE>>
    /\ capacity = 1200
    /\ registered
    /\ bufferValidStart = 0
    /\ bufferValidEnd = 0
    /\ srcPos = 1020

\* C16: a prepareToPlay call whose minimum buffer size is smaller than twice
\* the requested block size is rejected: it leaves the capacity, the valid
\* range and the registration as they were and configures nothing.
C16_SmallMinimumRejected ==
    [][\A spb \in ConfigureBlockSizeSet : \A sr \in SampleRateSet :
          (PrepareBegin(spb, sr) /\ numberOfSamplesToBuffer < 2 * spb)
             => /\ ownpc' = "idle"
                /\ isPrepared' = isPrepared
                /\ capacity' = capacity
                /\ bufferValidStart' = bufferValidStart
                /\ bufferValidEnd' = bufferValidEnd
                /\ registered' = registered]_vars

\* C16, amended: such a call is accepted and reports nothing; when it is the
\* first call, or changes the sample rate or the capacity, it resizes the
\* storage to twice the requested block size, resets the valid range and
\* registers the component.
C16_SmallMinimumEnlarged ==
    [][/\ \A spb \in ConfigureBlockSizeSet : \A sr \in SampleRateSet :
            (/\ PrepareBegin(spb, sr)
             /\ numberOfSamplesToBuffer < 2 * spb
             /\ \/ ~isPrepared
                \/ sr # sampleRate
                \/ 2 * spb # capacity)
               => /\ ownpc' = "resize"
                  /\ isPrepared'
       /\ (ownpc = "resize" /\ ownpc' # ownpc /\ numberOfSamplesToBuffer < 2 * ownArgs[1])
            => capacity' = 2 * ownArgs[1]
       /\ (ownpc = "reset" /\ ownpc' # ownpc /\ numberOfSamplesToBuffer < 2 * ownArgs[1])
            => /\ capacity = 2 * ownArgs[1]
               /\ bufferValidStart' = 0
               /\ bufferValidEnd' = 0
               /\ registered'
       /\ (ownpc = "sleep" /\ ownpc' = "idle" /\ numberOfSamplesToBuffer < 2 * ownArgs[1])
            => /\ isPrepared
               /\ capacity = 2 * ownArgs[1]
               /\ registered]_vars

\* C16 witness: the first call, with a block of 600 samples against a minimum
\* of 1024, has returned with a storage of 1200 samples
C16_Witness ==
    /\ ownpc = "idle"
    /\ ownerOps = MaxConfigureOps - 1
    /\ 2 * ownArgs[1] > numberOfSamplesToBuffer
    /\ ownArgs[3]
    /\ isPrepared
    /\ registered
    /\ capacity = 2 * ownArgs[1]

\* C17: outside its trivial cases, waitForNextAudioBlockReady (for a block of
\* n > 0 samples) returns true only from a check at which validStart <= cursor
\* and cursor + n <= validEnd, every such check returns true, and every other
\* way out of the call returns false.
C17_ReadyOnlyWhenCovered ==
    [][/\ (wtpc = "check" /\ wtpc' # wtpc)
            => ((wtpc' = "done" /\ wtRet' = "true")
                  <=> Covered(nextPlayPos, wtN, bufferValidStart, bufferValidEnd))
       /\ (wtpc = "check" /\ wtpc' = "done") => wtRet' = "true"
       /\ (wtpc \in {"wait", "clock"} /\ wtpc' = "done") => wtRet' = "false"]_vars

\* C17 witness: the call found the block missing, waited, was woken by the
\* refill and returned true from a check that found the block covered
C17_Witness ==
    /\ wtpc = "done"
    /\ wtRet = "true"
    /\ wtHist.checks = 1
    /\ wtHist.waits = 1
    /\ ~wtHist.nothingToWaitFor
    /\ Covered(nextPlayPos, wtN, bufferValidStart, bufferValidEnd)

\* C18: when there is nothing to wait for (the source is empty, or it is not
\* looping and the cursor is beyond its total length) the call returns true at
\* once, without a check and without a wait on the event.
C18_NothingToWaitForIsSuccess ==
    (wtpc = "done" /\ wtHist.nothingToWaitFor)
        => /\ wtRet = "true"
           /\ wtHist.checks = 0
           /\ wtHist.waits = 0

C20_WaitWithinRemainingBudget ==
    wtpc = "wait"
        => /\ wtArg >= 0
           /\ wtArg <= wtTimeout - wtElapsed

\* C21: the elapsed time computed at lines 196-197 equals (now - startTime)
\* mod 2^32 for every pair of readings of the counter, also when the counter
\* rolled over between the two readings (now < startTime).
C21_ElapsedOnRing ==
    [][(wtpc = "clock" /\ wtpc' # wtpc)
          => wtElapsed' = (wtNow - wtStartTime) % UIntRange]_vars

\* C22: a refill invocation returns the busy hint if and only if it selected
\* a section that is not empty, read the whole of it from the source, committed
\* the range it selected and signalled the event; otherwise it returns the idle
\* hint 100 from its selection, having neither moved nor read the source nor
\* signalled the event.
C22_BusyHintIffWorkDone ==
    /\ [][/\ (bgpc # "idle" /\ bgpc' = "idle") => bgpc \in {"select", "signal"}
          /\ (bgpc = "select" /\ bgpc' = "idle")
               => /\ timeSliceHint' = HintIdle
                  /\ HintIdle = 100
                  /\ sections' = <<>>
                  /\ srcPos' = srcPos
                  /\ buffer' = buffer
                  /\ bufferReadyEvent' = bufferReadyEvent
          /\ (bgpc = "select" /\ bgpc' \notin {"select", "idle"})
               => /\ bgpc' = "seek"
                  /\ sections' # <<>>
                  /\ SectionsLength(sections') > 0
                  /\ sections'[Len(sections')][1] + sections'[Len(sections')][2] = newBVE'
          /\ (bgpc = "signal" /\ bgpc' = "idle")
               => /\ timeSliceHint' = HintBusy
                  /\ HintBusy # HintIdle
                  /\ sections = <<>>
                  /\ srcPos = newBVE
                  /\ bufferValidStart = newBVS
                  /\ bufferValidEnd = newBVE
                  /\ bufferReadyEvent'
          /\ srcPos' # srcPos => bgpc \in {"seek", "read"}]_vars
    /\ [](bgpc \in {"commit", "signal"} => (sections = <<>> /\ srcPos = newBVE))

\* C22 witness: an invocation found nothing to read and returned the idle hint
\* after earlier invocations had filled the cache and signalled the event
C22_Witness ==
    /\ bgpc = "idle"
    /\ registered
    /\ timeSliceHint = HintIdle
    /\ bufferValidEnd - bufferValidStart = capacity - GuardSamples
    /\ bufferReadyEvent
    /\ srcPos = bufferValidEnd

\* C23: while the source is not looping and the cursor is at or beyond its
\* total length, a refill invocation selects no section, does not read the
\* source and returns the idle hint.
C23_ExhaustedSourceIsIdle ==
    [][(/\ bgpc = "select"
        /\ bgpc' # bgpc
        /\ ~srcLooping
        /\ nextPlayPos >= srcTotalLength)
          => /\ bgpc' = "idle"
             /\ sections' = <<>>
             /\ timeSliceHint' = HintIdle]_vars

\* C24: when a source read of a refill invocation fails and delivers no data,
\* the range that invocation commits does not cover any position of the section
\* left unread (so that a later invocation selects it again), and nothing is
\* reported to the caller.
C24_FailedReadNotPublished ==
    [][(bgpc = "commit" /\ bgpc' # bgpc /\ srcFailed # <<>>)
          => NoIntersection(srcFailed[1], srcFailed[2], bufferValidStart', bufferValidEnd')]_vars

\* C25: after releaseResources the component is deregistered and no time
\* slice runs until the next prepareToPlay, the capacity is 0 and the component
\* is marked unprepared; the next prepareToPlay call, whatever its arguments,
\* takes the reset branch.
C25_ReleaseUnconfigures ==
    /\ []((~isPrepared /\ ownerOps < MaxConfigureOps)
             => /\ ~registered
                /\ capacity = 0
                /\ bgpc = "idle"
                /\ ownpc = "idle")
    /\ [][/\ ~registered => bgpc' = "idle"
          /\ \A spb \in ConfigureBlockSizeSet : \A sr \in SampleRateSet :
                (PrepareBegin(spb, sr) /\ ~isPrepared)
                   => /\ ownpc' = "resize"
                      /\ ownArgs'[3]
                      /\ isPrepared']_vars

\* C25 witness: a prepareToPlay call that follows a releaseResources, which
\* followed a configured component with a filled cache, is in its reset branch
C25_Witness ==
    /\ ownpc = "resize"
    /\ ownerOps = MaxConfigureOps - 3
    /\ ownArgs[3]
    /\ isPrepared
    /\ capacity = 0
    /\ ~registered
    /\ srcPos > 0

\* C26: with a capacity of 4096, blocks of 512 and a non-looping source of
\* 10000 samples, the call at cursor 0 before any refill outputs 512 zeros and
\* moves the cursor to 512; the first refill invocation then publishes
\* [0, 4092); the call at cursor 512 that follows outputs the source's samples
\* 512..1023 with no sample zeroed.
C26_ScenarioFirstBlocks ==
    /\ (/\ RtFinished
        /\ rtRet.pos = 0
        /\ rtRet.ve = 0
        /\ ~rtRet.seeked)
          => /\ \A i \in 0..(rtRet.n - 1) : out[i] = 0
             /\ rtRet.posAfter = ScenarioBlock
    /\ (/\ bgpc = "signal"
        /\ ~bufferReadyEvent
        /\ ownerOps = ScenarioOwnerOps)
          => /\ bufferValidStart = 0
             /\ bufferValidEnd = ScenarioCapacity - GuardSamples
    /\ (/\ RtFinished
        /\ rtRet.pos = ScenarioBlock
        /\ rtRet.ve > 0
        /\ ~rtRet.seeked
        /\ ownerOps = ScenarioOwnerOps)
          => /\ rtRet.a = 0
             /\ rtRet.b = rtRet.n
             /\ \A i \in 0..(rtRet.n - 1) : out[i] = SourceData(ScenarioBlock + i)

\* C27: with the same source, after setNextReadPosition (9800) and a refill
\* invocation that read the cache again from 9800, the call at cursor 9800
\* finds a valid range that ends at the total length 10000: it outputs the
\* source's samples 9800..9999 in the samples 0..199 of its block and zeroes the
\* samples 200..511 as a miss at the end.
C27_ScenarioTailMiss ==
    (/\ RtFinished
     /\ rtRet.pos = ScenarioSeek
     /\ rtRet.vs = ScenarioSeek
     /\ ~rtRet.seeked)
       => /\ rtRet.ve = ScenarioLength
          /\ rtRet.a = 0
          /\ rtRet.b = ScenarioLength - ScenarioSeek
          /\ \A i \in 0..(rtRet.n - 1) :
                out[i] = IF i < ScenarioLength - ScenarioSeek
                         THEN SourceData(ScenarioSeek + i) ELSE 0

\* C28: with prefillBuffer set, a prepareToPlay call that took the reset
\* branch returns only from a test (under bufferRangeLock) that finds
\* validEnd - validStart >= min(sampleRate / 4, capacity / 2).
C28_PrefilledOnReturn ==
    [][(ownpc = "sleep" /\ ownpc' = "idle" /\ prefillBuffer)
          => /\ bufferRangeLock = "free"
             /\ \/ bufferValidEnd - bufferValidStart >= sampleRate \div 4
                \/ bufferValidEnd - bufferValidStart >= capacity \div 2
             /\ bufferValidEnd' = bufferValidEnd
             /\ bufferValidStart' = bufferValidStart]_vars

\* C28 witness: the call slept while the range was empty and has returned
\* after the refill published its first range
C28_Witness ==
    /\ prefillBuffer
    /\ ownpc = "idle"
    /\ ownArgs[3]
    /\ ownerOps = MaxOwnerOps - 1
    /\ registered
    /\ sampleRate \div 4 > capacity \div 2
    /\ bufferValidEnd - bufferValidStart >= capacity \div 2

\* C29: a getNextAudioBlock call addresses the cache with the cursor it
\* computed the intersection [a, b) from, and advances that cursor: whatever
\* setNextReadPosition call runs meanwhile, the slots it copies are the slots
\* of the positions cursor + a .. cursor + b - 1 and the cursor it leaves is
\* the one it read plus n.
C29_ReadBlockAtomicWithSeek ==
    [][(rtpc = "wantCallbackLock" /\ rtpc' # rtpc /\ capacity > 0)
          => /\ nextPlayPos = rtPos
             /\ nextPlayPos' = rtPos + rtN
             /\ \A k \in 0..(rtRange[1][2] - rtRange[1][1] - 1) :
                   CopyIndex(rtRange[1][1], rtRange[1][2], nextPlayPos, capacity, k)
                      = (rtPos + rtRange[1][1] + k) % capacity]_vars

\* the refill invocation is between its selection and its commit
RefillWriting == bgpc \in {"seek", "lock", "read"}

\* the positions the invocation in progress writes: all it selected in the
\* cold case (nothing is published), the tail after the published range in the
\* drift case
WrittenPositions ==
    IF bufferValidStart = bufferValidEnd
    THEN newBVS..(newBVE - 1)
    ELSE bufferValidEnd..(newBVE - 1)

\* C30: while a refill invocation writes its section, no slot it writes is the
\* slot of a position of the range published at that time, and a
\* getNextAudioBlock call that copies meanwhile, with no setNextReadPosition call
\* during it, copies from no slot that the invocation writes.
C30_RefillWritesOutsideWhatIsRead ==
    /\ [](RefillWriting
            => \A x \in bufferValidStart..(bufferValidEnd - 1) :
                  \A y \in WrittenPositions : (y - x) % capacity # 0)
    /\ [][(/\ rtpc = "wantCallbackLock"
           /\ rtpc' = "done"
           /\ ~rtSeeked
           /\ ~rtLifecycle
           /\ RefillWriting)
             => \A k \in 0..(rtRange[1][2] - rtRange[1][1] - 1) :
                   \A y \in WrittenPositions :
                      (y - CopyIndex(rtRange[1][1], rtRange[1][2], nextPlayPos, capacity, k))
                         % capacity # 0]_vars

\* the invocation selecting now sees the looping mode the previous one saw
LoopingUnchanged == wasSourceLooping = srcLooping

\* max(0, cursor) lies inside the published range
StartInsideRange ==
    /\ bufferValidStart <= jmax(0, nextPlayPos)
    /\ jmax(0, nextPlayPos) < bufferValidEnd

\* the start or the end of the published range is more than 512 samples away
\* from the start or the end of the desired window
BoundaryMoved ==
    LET newStart == jmax(0, nextPlayPos)
        newEnd == newStart + capacity - 4
    IN  \/ newStart - bufferValidStart > 512
        \/ bufferValidStart - newStart > 512
        \/ newEnd - bufferValidEnd > 512
        \/ bufferValidEnd - newEnd > 512

\* the smaller of two numbers
Smaller(a, b) == IF a <= b THEN a ELSE b

\* a drift invocation (max(0, cursor) inside the valid range, a boundary moved
\* by more than 512, and the condition extra) reads exactly
\* [validEnd, min(newStart + capacity - 4, validEnd + 2048)), which is not
\* empty, and publishes [newStart, old validEnd) while it reads
DriftReadsTail(extra) ==
    (/\ bgpc = "select"
     /\ bgpc' # bgpc
     /\ extra
     /\ StartInsideRange
     /\ BoundaryMoved)
      => LET newStart == jmax(0, nextPlayPos)
             readEnd == Smaller(newStart + capacity - 4, bufferValidEnd + 2048)
         IN  /\ bgpc' = "seek"
             /\ readEnd > bufferValidEnd
             /\ sections'[1][1] = bufferValidEnd
             /\ SectionsLength(sections') = readEnd - bufferValidEnd
             /\ \A j \in 1..Len(sections') : sections'[j][2] > 0
             /\ Len(sections') = 2 => sections'[2][1] = sections'[1][1] + sections'[1][2]
             /\ bufferValidStart' = newStart
             /\ bufferValidEnd' = bufferValidEnd
             /\ newBVS' = newStart
             /\ newBVE' = readEnd

\* an invocation reads the sections it selected and commits the range it
\* selected
RefillCommitsSelection ==
    /\ (bgpc \in {"seek", "lock", "read"})
         => (newBVS' = newBVS /\ newBVE' = newBVE)
    /\ (bgpc = "read" /\ bgpc' # bgpc /\ srcFailed' = srcFailed)
         => /\ srcPos = sections[1][1]
            /\ srcPos' = sections[1][1] + sections[1][2]
    /\ (bgpc = "commit" /\ bgpc' # bgpc)
         => (bufferValidStart' = newBVS /\ bufferValidEnd' = newBVE)

\* C32: in the drift case (max(0, cursor) inside the valid range, a boundary
\* moved by more than 512) the invocation reads exactly
\* [validEnd, min(newStart + capacity - 4, validEnd + 2048)), which is not
\* empty, publishes [newStart, old validEnd) while it reads, and commits
\* validStart = newStart and validEnd = the end of what it read.
C32_DriftExtendsTail ==
    [][DriftReadsTail(TRUE) /\ RefillCommitsSelection]_vars

\* C32, amended: the same, for an invocation that finds the looping mode of
\* the source as the previous invocation saw it.
C32_DriftExtendsTailSameLooping ==
    [][DriftReadsTail(LoopingUnchanged) /\ RefillCommitsSelection]_vars

\* C32 witness: a drift invocation is reading the tail [1020, 1920) while
\* [900, 1020) is published
C32_Witness ==
    /\ bgpc = "read"
    /\ bufferValidStart = newBVS
    /\ bufferValidStart > 512
    /\ bufferValidEnd > bufferValidStart
    /\ sections[1][1] = bufferValidEnd
    /\ newBVE = bufferValidStart + capacity - GuardSamples

\* C33: every refill invocation reads at most 2048 samples from the source: in
\* the cold case exactly [newStart, min(newStart + capacity - 4, newStart + 2048)),
\* in the drift case a segment that starts at the old validEnd and is at most
\* 2048 samples long.
C33_AtMostMaxChunkPerInvocation ==
    [][ /\ (bgpc = "select" /\ bgpc' # bgpc)
          => LET newStart == jmax(0, nextPlayPos)
                 cold == ~StartInsideRange \/ ~LoopingUnchanged
             IN  /\ bgpc' = "seek" => SectionsLength(sections') <= 2048
                 /\ cold => /\ bgpc' = "seek"
                            /\ sections'[1][1] = newStart
                            /\ SectionsLength(sections')
                                 = Smaller(capacity - 4, 2048)
                 /\ (~cold /\ bgpc' = "seek")
                      => sections'[1][1] = bufferValidEnd
        /\ (bgpc \in {"seek", "lock", "read"} /\ bgpc' \in {"seek", "lock", "read"})
             => SectionsLength(sections') <= SectionsLength(sections)
        /\ srcPos' # srcPos
             => /\ bgpc \in {"seek", "read"}
                /\ bgpc = "read"
                     => /\ srcPos = sections[1][1]
                        /\ srcPos' = srcPos + sections[1][2]
                        /\ sections[1][2] <= 2048 ]_vars

\* C33 witness: a drift invocation limited by the chunk size is about to read
\* the 2048 samples that follow the old validEnd
C33_Witness ==
    /\ bgpc = "seek"
    /\ bufferValidEnd > 0
    /\ sections[1][1] = bufferValidEnd
    /\ SectionsLength(sections) = 2048
    /\ newBVE < newBVS + capacity - GuardSamples

\* a steady-state invocation (max(0, cursor) inside the valid range, no
\* boundary further than 512 from the desired window, and the condition extra)
\* changes neither the range, the cache nor the source position, does not
\* raise the signal and returns without work
SteadyStateIdle(extra) ==
    (/\ bgpc = "select"
     /\ bgpc' # bgpc
     /\ extra
     /\ StartInsideRange
     /\ ~BoundaryMoved)
      => /\ bgpc' = "idle"
         /\ bufferValidStart' = bufferValidStart
         /\ bufferValidEnd' = bufferValidEnd
         /\ buffer' = buffer
         /\ srcPos' = srcPos
         /\ bufferReadyEvent' = bufferReadyEvent
         /\ timeSliceHint' = HintIdle

\* C34: in the steady state (max(0, cursor) inside [validStart, validEnd), no
\* boundary further than 512 from the desired window) a refill invocation
\* leaves validStart, validEnd, the cache and the source position unchanged and
\* does not raise the readiness signal.
C34_SteadyStateLeavesAll == [][SteadyStateIdle(TRUE)]_vars

\* C34, amended: the same, for an invocation that finds the looping mode of
\* the source as the previous invocation saw it.
C34_SteadyStateSameLooping == [][SteadyStateIdle(LoopingUnchanged)]_vars

\* C34 witness: an invocation holds the range lock in the steady state, with the
\* cursor advanced into a filled range and the looping mode unchanged
C34_Witness ==
    /\ bgpc = "select"
    /\ LoopingUnchanged
    /\ StartInsideRange
    /\ ~BoundaryMoved
    /\ nextPlayPos > 0
    /\ bufferValidEnd = bufferValidStart + capacity - GuardSamples

\* C35: while the component is configured (marked prepared, with storage),
\* validEnd - validStart is at most capacity - 4.
C35_GuardMargin ==
    (isPrepared /\ capacity > 0)
      => bufferValidEnd - bufferValidStart <= capacity - 4

\* C36: whenever the storage is indexed, by a getNextAudioBlock call that
\* found a non-empty intersection or by a refill invocation that selected a
\* section, its size is positive.
C36_StorageIndexedOnlyWhenSized ==
    [][ /\ (rtpc = "wantCallbackLock" /\ rtpc' # rtpc) => capacity > 0
        /\ (bgpc = "select" /\ bgpc' = "seek") => capacity > 0 ]_vars

\* C37: when prepareToPlay changes the capacity, no getNextAudioBlock call
\* copies from the resized storage with a range committed under the old
\* capacity: no call copies between the resize and the reset of the range.
C37_NoCopyBetweenResizeAndReset ==
    [][(rtpc = "wantCallbackLock" /\ rtpc' # rtpc)
         => ~(ownpc = "reset" /\ capacity # bufferSizeNeeded(512))]_vars

\* a getNextReadPosition call returns
GetterReturns ==
    /\ ownerOps' = ownerOps - 1
    /\ posRet' # <<>>
    /\ UNCHANGED <<nextPlayPos, srcLooping, seekArg>>

\* a setNextReadPosition call returns
SeekReturns ==
    /\ ownerOps' = ownerOps - 1
    /\ seekArg' # <<>>
    /\ posRet' = <<>>
    /\ srcLooping' = srcLooping

\* C40: getNextReadPosition called after setNextReadPosition(p), with no
\* getNextAudioBlock call in between, returns p when the source does not loop or
\* p <= 0, and the remainder of p by the total length when it loops and p > 0;
\* setNextReadPosition changes neither validStart nor validEnd.
C40_SeekRoundTrip ==
    [][ /\ (GetterReturns /\ seekArg # <<>>)
          => LET p == seekArg[1]
             IN  posRet'[1] = IF srcLooping /\ p > 0
                              THEN p - srcTotalLength * (p \div srcTotalLength)
                              ELSE p
        /\ SeekReturns
             => /\ bufferValidStart' = bufferValidStart
                /\ bufferValidEnd' = bufferValidEnd ]_vars

\* C40 witness: with a looping source and a filled range, the position asked
\* after a seek past the end of the source is the wrapped one
C40_Witness ==
    /\ srcLooping
    /\ seekArg # <<>>
    /\ seekArg[1] > srcTotalLength
    /\ posRet # <<>>
    /\ posRet[1] < seekArg[1]
    /\ bufferValidEnd > bufferValidStart

\* C40 witness of the other case: the position asked after a seek to a
\* negative position is that position
C40_WitnessNegative ==
    /\ seekArg # <<>>
    /\ seekArg[1] < 0
    /\ posRet = seekArg

\* C31: once the owner has made its last seek, whatever its argument (and with
\* no getNextAudioBlock call copying during it), a getNextAudioBlock call that
\* starts after it eventually finds a non-empty intersection with the valid
\* range.
C31_CatchUpAfterSeek ==
    (ownerOps = 0 /\ seekArg # <<>> /\ rtpc = "idle")
      ~> (ownerOps = 0 /\ rtpc = "wantCallbackLock" /\ ~rtSeeked)

\* C39: with prefillBuffer set and no seek, a prepareToPlay call that is in
\* its body eventually returns, whatever the capacity and the sample rate, as
\* long as the time slices go on.
C39_PrefillReturns ==
    (prefillBuffer /\ ownpc # "idle") ~> (ownpc = "idle")

\* C39 witness: the call has returned from storage of 5000 samples, which the
\* first time slice (2048 samples) does not fill up to the target of 2500
C39_Witness ==
    /\ prefillBuffer
    /\ ownpc = "idle"
    /\ ownArgs[3]
    /\ registered
    /\ capacity > 2 * maxChunkSize
    /\ bufferValidEnd - bufferValidStart >= capacity \div 2

\* the refill is between invocations or about to decide, the last invocation
\* returned idle, and a non-negative cursor has capacity - 4 - 512 samples of
\* valid look-ahead
Throttled ==
    /\ bgpc \in {"idle", "select"}
    /\ timeSliceHint = HintIdle
    /\ nextPlayPos >= 0 => bufferValidEnd - nextPlayPos >= capacity - 4 - 512

\* C38: the cursor and the looping mode stop changing (the owner and the audio
\* callback have a bounded number of steps); from some invocation on every
\* invocation (there is none once the process has crashed) returns idle and
\* leaves the valid range unchanged, and [cursor, validEnd) then holds at least
\* capacity - 4 - 512 samples when the cursor is not negative.
C38_SelfThrottling ==
    /\ <>[](Alive => Throttled)
    /\ <>[][/\ bufferValidStart' = bufferValidStart
            /\ bufferValidEnd' = bufferValidEnd]_vars

\* C38 witness: the cursor has come to rest past the last position the audio
\* callback reads from, and an invocation that follows an idle one is about to
\* decide in the steady state
C38_Witness ==
    /\ Alive
    /\ ownerOps = 0
    /\ nextPlayPos > MaxPlayPos
    /\ rtpc = "idle"
    /\ bgpc = "select"
    /\ timeSliceHint = HintIdle
    /\ StartInsideRange
    /\ ~BoundaryMoved

====
